---- MODULE Spec2Model ----
(***************************************************************************)
(* Model of the bdk wallet library's control surface (src/src/api.rs), its  *)
(* configuration file handling (src/src/config.rs) and its store           *)
(* (src/src/db.rs).                                                        *)
(*                                                                         *)
(*  SpecCfg      the config operations init_config, update_config,         *)
(*               remove_config, load_config over the work directory        *)
(*  SpecSaveLoad config::save / config::load / config::remove on one file  *)
(*  SpecRun      threads calling start, stop, balance, deposit_addr on the *)
(*               process-wide CONTENT_STORE slot                           *)
(*  FairRun      SpecRun with the scheduling assumptions of the executor   *)
(*  SpecBook     read_seed, store_address, get_an_address on one network,  *)
(*               with addresses that share a slot                          *)
(*  SpecPick     store_address, get_an_address on two networks             *)
(*  SpecCoins    sessions on the coins, txout and processed tables         *)
(*  SpecAccounts sessions on the account table                             *)
(*  SpecRescan   start on a store whose birth is newer than trunk headers  *)
(*  SpecLocks    SpecRun with withdraw: the store's readers-writer lock    *)
(*  SpecSession  the database sessions of init, start and the pipeline     *)
(*  SpecInitRace two threads in init_config on one work directory          *)
(*  SpecWithdraw withdraw over the transaction builder of the store        *)
(*  SpecPipeline header chain, block-download pipeline and coin set        *)
(***************************************************************************)
EXTENDS Integers, Sequences, FiniteSets, TLC

VARIABLES
    fs,         \* the work directories: path -> [dir, cfg, db]
    wallets,    \* number of wallets Wallet::new has created (fresh entropy)
    last,       \* the last control-surface call and what it returned
    tick,       \* parity of the number of calls made
    inited,     \* the config written by the init_config that created the wallet
    saved,      \* the config of the last completed config::save
    slot,       \* CONTENT_STORE: the Option<SharedContentStore>
    poisoned,   \* CONTENT_STORE's RwLock is poisoned
    stores,     \* the ContentStores created so far: id -> record
    supervisors,\* the P2PBitcoin supervisors that exist: id -> "new"|"started"
    pc,         \* per thread: position in its current call
    call,       \* per thread: the call it is in and its arguments
    handle,     \* per thread: the Arc<RwLock<ContentStore>> it holds (0: none)
    ret         \* per thread: what its last finished call returned

vars == <<fs, wallets, last, tick, inited, saved, slot, poisoned, stores, supervisors,
          pc, call, handle, ret>>

cfgVars == <<fs, wallets, last, tick, inited, saved>>
runVars == <<slot, poisoned, stores, supervisors, pc, call, handle, ret>>

----------------------------------------------------------------------------
(* Bounds of the model *)

MaxWallets == 2
MaxPeers == 2
MaxStores == 2

----------------------------------------------------------------------------
(* Option and Result values *)

NoneV == [some |-> FALSE]
Some(x) == [some |-> TRUE, v |-> x]

Ok(x) == [ok |-> TRUE, v |-> x]
Err(k) == [ok |-> FALSE, err |-> k]

Unit == <<>>

----------------------------------------------------------------------------
(* bitcoin::Network and the per-network directory name *)

Networks == {"Bitcoin", "Testnet", "Regtest"}

network_to_string(n) ==
    CASE n = "Bitcoin" -> "bitcoin"
      [] n = "Testnet" -> "testnet"
      [] n = "Regtest" -> "regtest"

network_from_str(s) ==
    CASE s = "bitcoin" -> Ok("Bitcoin")
      [] s = "testnet" -> Ok("Testnet")
      [] s = "regtest" -> Ok("Regtest")
      [] OTHER -> Err("TomlDe")

CONFIG_FILE_NAME == "bdk.cfg"

KEY_LOOK_AHEAD == 10

\* the directory <work_dir>/<network>/ that holds bdk.cfg and bdk.db
config_path(work_dir, network) == <<work_dir, network_to_string(network)>>

----------------------------------------------------------------------------
(* config::Config and its TOML text                                        *)
(*                                                                         *)
(* A SocketAddr is [ip, port]; its Display form, the text toml stores, is  *)
(* the token <<ip, port>> ("ip:port").  A TOML document is the sequence of *)
(* its key/value lines, each value carrying its TOML type.                 *)

Config_new(encryptedwalletkey, keyroot, lookahead, birth, network) ==
    [encryptedwalletkey |-> encryptedwalletkey,
     keyroot |-> keyroot,
     lookahead |-> lookahead,
     birth |-> birth,
     network |-> network,
     bitcoin_peers |-> <<>>,
     bitcoin_connections |-> 0,
     bitcoin_discovery |-> FALSE]

\* update extending the peer list instead of replacing it
update_m(self, bitcoin_peers, bitcoin_connections, bitcoin_discovery) ==
    [self EXCEPT !.bitcoin_peers = self.bitcoin_peers \o bitcoin_peers,
                 !.bitcoin_connections = bitcoin_connections,
                 !.bitcoin_discovery = bitcoin_discovery]

update(self, bitcoin_peers, bitcoin_connections, bitcoin_discovery) ==
    [encryptedwalletkey |-> self.encryptedwalletkey,
     keyroot |-> self.keyroot,
     lookahead |-> self.lookahead,
     birth |-> self.birth,
     network |-> self.network,
     bitcoin_peers |-> bitcoin_peers,
     bitcoin_connections |-> bitcoin_connections,
     bitcoin_discovery |-> bitcoin_discovery]

SocketAddr_to_string(a) == <<a.ip, a.port>>
SocketAddr_from_str(s) == [ip |-> s[1], port |-> s[2]]

TStr(s) == [t |-> "string", v |-> s]
TInt(n) == [t |-> "integer", v |-> n]
TBool(b) == [t |-> "boolean", v |-> b]
TArr(a) == [t |-> "array", v |-> a]

Line(k, val) == [key |-> k, val |-> val]

\* toml::to_string(config): one line per field, in declaration order
toml_to_string(config) ==
    << Line("encryptedwalletkey", TStr(config.encryptedwalletkey)),
       Line("keyroot", TStr(config.keyroot)),
       Line("lookahead", TInt(config.lookahead)),
       Line("birth", TInt(config.birth)),
       Line("network", TStr(network_to_string(config.network))),
       Line("bitcoin_peers",
            TArr([i \in 1..Len(config.bitcoin_peers) |->
                    TStr(SocketAddr_to_string(config.bitcoin_peers[i]))])),
       Line("bitcoin_connections", TInt(config.bitcoin_connections)),
       Line("bitcoin_discovery", TBool(config.bitcoin_discovery)) >>

HasKey(text, k, t) ==
    \E i \in 1..Len(text) : text[i].key = k /\ text[i].val.t = t

ValueOf(text, k) ==
    text[CHOOSE i \in 1..Len(text) : text[i].key = k].val.v

\* toml::from_str::<Config>(text): every field must be present with its type
toml_from_str(text) ==
    IF /\ HasKey(text, "encryptedwalletkey", "string")
       /\ HasKey(text, "keyroot", "string")
       /\ HasKey(text, "lookahead", "integer")
       /\ HasKey(text, "birth", "integer")
       /\ HasKey(text, "network", "string")
       /\ HasKey(text, "bitcoin_peers", "array")
       /\ HasKey(text, "bitcoin_connections", "integer")
       /\ HasKey(text, "bitcoin_discovery", "boolean")
       /\ network_from_str(ValueOf(text, "network")).ok
       /\ \A i \in 1..Len(ValueOf(text, "bitcoin_peers")) :
             ValueOf(text, "bitcoin_peers")[i].t = "string"
    THEN Ok([encryptedwalletkey |-> ValueOf(text, "encryptedwalletkey"),
             keyroot |-> ValueOf(text, "keyroot"),
             lookahead |-> ValueOf(text, "lookahead"),
             birth |-> ValueOf(text, "birth"),
             network |-> network_from_str(ValueOf(text, "network")).v,
             bitcoin_peers |->
                 [i \in 1..Len(ValueOf(text, "bitcoin_peers")) |->
                    SocketAddr_from_str(ValueOf(text, "bitcoin_peers")[i].v)],
             bitcoin_connections |-> ValueOf(text, "bitcoin_connections"),
             bitcoin_discovery |-> ValueOf(text, "bitcoin_discovery")])
    ELSE Err("TomlDe")

----------------------------------------------------------------------------
(* The directory <work_dir>/<network>/ : whether it exists, the contents   *)
(* of bdk.cfg and of bdk.db.                                               *)

NoFile == [exists |-> FALSE]
File(text) == [exists |-> TRUE, text |-> text]

EmptyDir == [dir |-> FALSE, cfg |-> NoFile, db |-> NoFile, chain |-> NoFile]

\* outcomes of save's write_all: it succeeds, or fails after File::create
\* has truncated the file
IoOutcomes == {"ok", "write_fails"}

\* save opening the file without truncating it
save_m(d, config, io) ==
    CASE io = "write_fails" ->
            [d |-> [d EXCEPT !.dir = TRUE, !.cfg = File(<<>>)], r |-> Err("IO")]
      [] OTHER ->
            [d |-> [d EXCEPT !.dir = TRUE,
                             !.cfg = File((IF d.cfg.exists THEN d.cfg.text ELSE <<>>)
                                          \o toml_to_string(config))],
             r |-> Ok(Unit)]

\* config::save: create_dir_all, File::create (truncates), write_all, sync
save(d, config, io) ==
    CASE io = "write_fails" ->
            [d |-> [d EXCEPT !.dir = TRUE, !.cfg = File(<<>>)], r |-> Err("IO")]
      [] OTHER ->
            [d |-> [d EXCEPT !.dir = TRUE, !.cfg = File(toml_to_string(config))],
             r |-> Ok(Unit)]

\* config::load: File::open, read_to_string, toml::from_str
load(d) ==
    IF ~d.cfg.exists THEN Err("IO") ELSE toml_from_str(d.cfg.text)

\* remove reporting success without deleting anything
remove_m(d) ==
    IF d.dir THEN [d |-> d, r |-> Ok(Unit)]
             ELSE [d |-> d, r |-> Err("IO")]

\* config::remove: fs::remove_dir_all(config_path)
remove(d) ==
    IF d.dir THEN [d |-> EmptyDir, r |-> Ok(Unit)]
             ELSE [d |-> d, r |-> Err("IO")]

----------------------------------------------------------------------------
(* Wallet::new and db::init                                                *)

Passphrases == {"correct horse battery staple", "hunter2"}
PdPassphrases == {NoneV, Some("test123")}
Times == {1577836800}

\* Wallet::new(network, passphrase, pd_passphrase) on fresh entropy e
Wallet_new(e, network, passphrase, pd_passphrase, now) ==
    [mnemonic_words |-> <<"mnemonic", e>>,
     deposit_address |-> <<"address", e, pd_passphrase, network, 0, 0, 0>>,
     encrypted |-> <<"encrypted", e, passphrase>>,
     master_public |-> <<"xpub", e, pd_passphrase>>,
     birth |-> now,
     coins |-> {},
     accounts |-> {<<0, 0>>, <<0, 1>>, <<1, 0>>}]

hex_encode(bytes) == <<"hex", bytes>>

\* db::init: create the tables, then store_coins and store_master in one
\* committed session (both delete the rows of the table they rewrite)
db_init(d, wallet) ==
    [d EXCEPT !.db = [exists |-> TRUE,
                      coins |-> wallet.coins,
                      account |-> {[account |-> a[1], sub |-> a[2],
                                    master |-> wallet.master_public]
                                   : a \in wallet.accounts},
                      processed |-> IF d.db.exists THEN d.db.processed ELSE NoneV,
                      txout |-> IF d.db.exists THEN d.db.txout ELSE {}]]

InitResult_new(mnemonic_words, deposit_address) ==
    [mnemonic_words |-> mnemonic_words, deposit_address |-> deposit_address]

----------------------------------------------------------------------------
(* The config operations of the control surface.  Each operator maps the   *)
(* directory d = <work_dir>/<network>/ to the directory it leaves and the  *)
(* value it returns.                                                       *)

\* api::load_config
load_config(d) == [d |-> d, ret |-> load(d)]

\* api::remove_config: load, then remove the whole directory
remove_config(d) ==
    IF ~load(d).ok THEN [d |-> d, ret |-> load(d)]
    ELSE IF ~remove(d).r.ok THEN [d |-> remove(d).d, ret |-> remove(d).r]
    ELSE [d |-> remove(d).d, ret |-> Ok(load(d).v)]

\* api::update_config: load, Config::update, save
update_config(d, bitcoin_peers, bitcoin_connections, bitcoin_discovery, io) ==
    IF ~load(d).ok THEN [d |-> d, ret |-> load(d)]
    ELSE LET updated_config == update(load(d).v, bitcoin_peers,
                                      bitcoin_connections, bitcoin_discovery)
             s == save(d, updated_config, io)
         IN  IF s.r.ok THEN [d |-> s.d, ret |-> Ok(updated_config)]
                       ELSE [d |-> s.d, ret |-> s.r]

\* the test of init_config: if let Ok(_config) = config::load(&file_path)
config_loads(d) == load(d).ok

\* api::init_config, on fresh entropy e at time now
init_config(d, e, network, passphrase, pd_passphrase, now, io) ==
    LET d0 == [d EXCEPT !.dir = TRUE]       \* fs::create_dir_all
    IN  IF config_loads(d0) THEN [d |-> d0, ret |-> Ok(NoneV), created |-> FALSE,
                                      config |-> NoneV]
        ELSE LET wallet == Wallet_new(e, network, passphrase, pd_passphrase, now)
                 d1 == db_init(d0, wallet)
                 config == Config_new(hex_encode(wallet.encrypted),
                                      wallet.master_public, KEY_LOOK_AHEAD,
                                      wallet.birth, network)
                 s == save(d1, config, io)
             IN  IF s.r.ok
                 THEN [d |-> s.d, created |-> TRUE, config |-> config,
                       ret |-> Ok(Some(InitResult_new(wallet.mnemonic_words,
                                                      wallet.deposit_address)))]
                 ELSE [d |-> s.d, created |-> TRUE, config |-> config,
                       ret |-> s.r]

----------------------------------------------------------------------------
(* SpecCfg: one caller issuing config operations on ./<network>/           *)

WorkDir == "."
CfgNetworks == {"Regtest"}
CfgPaths == {config_path(WorkDir, n) : n \in CfgNetworks}

Peer1 == [ip |-> "127.0.0.1", port |-> 18333]
Peer2 == [ip |-> "10.0.0.10", port |-> 18333]
Peers == {Peer1, Peer2}
PeerLists == UNION {[1..n -> Peers] : n \in 0..MaxPeers}
Connections == {3}

NoCall == [op |-> "none"]

RunIdle ==
    /\ slot = NoneV
    /\ poisoned = FALSE
    /\ stores = <<>>
    /\ supervisors = <<>>
    /\ pc = <<>>
    /\ call = <<>>
    /\ handle = <<>>
    /\ ret = <<>>

InitCfg ==
    /\ fs = [p \in CfgPaths |-> EmptyDir]
    /\ wallets = 0
    /\ last = NoCall
    /\ tick = 0
    /\ inited = NoneV
    /\ saved = NoneV
    /\ RunIdle

Called(c, r) ==
    /\ last' = [c EXCEPT !.ret = r]
    /\ tick' = 1 - tick
    /\ UNCHANGED saved
    /\ UNCHANGED runVars

InitConfig(network, passphrase, pd_passphrase, now, io) ==
    LET p == config_path(WorkDir, network)
        r == init_config(fs[p], wallets + 1, network, passphrase, pd_passphrase, now, io)
    IN  /\ r.created => wallets < MaxWallets
        /\ fs' = [fs EXCEPT ![p] = r.d]
        /\ wallets' = IF r.created THEN wallets + 1 ELSE wallets
        /\ inited' = IF r.created /\ r.ret.ok THEN Some(r.config) ELSE inited
        /\ Called([op |-> "init_config", network |-> network, io |-> io,
                   ret |-> NoneV], r.ret)

UpdateConfig(network, bitcoin_peers, bitcoin_connections, bitcoin_discovery, io) ==
    LET p == config_path(WorkDir, network)
        r == update_config(fs[p], bitcoin_peers, bitcoin_connections,
                           bitcoin_discovery, io)
    IN  /\ fs' = [fs EXCEPT ![p] = r.d]
        /\ UNCHANGED <<wallets, inited>>
        /\ Called([op |-> "update_config", network |-> network,
                   bitcoin_peers |-> bitcoin_peers,
                   bitcoin_connections |-> bitcoin_connections,
                   bitcoin_discovery |-> bitcoin_discovery,
                   io |-> io, ret |-> NoneV], r.ret)

RemoveConfig(network) ==
    LET p == config_path(WorkDir, network)
        r == remove_config(fs[p])
    IN  /\ fs' = [fs EXCEPT ![p] = r.d]
        /\ UNCHANGED wallets
        /\ inited' = IF r.ret.ok THEN NoneV ELSE inited
        /\ Called([op |-> "remove_config", network |-> network, ret |-> NoneV], r.ret)

LoadConfig(network) ==
    LET p == config_path(WorkDir, network)
        r == load_config(fs[p])
    IN  /\ fs' = [fs EXCEPT ![p] = r.d]
        /\ UNCHANGED <<wallets, inited>>
        /\ Called([op |-> "load_config", network |-> network, ret |-> NoneV], r.ret)

NextCfg ==
    \/ \E n \in CfgNetworks, pp \in Passphrases, pd \in PdPassphrases,
          now \in Times, io \in IoOutcomes : InitConfig(n, pp, pd, now, io)
    \/ \E n \in CfgNetworks, ps \in PeerLists, c \in Connections,
          disc \in BOOLEAN, io \in IoOutcomes : UpdateConfig(n, ps, c, disc, io)
    \/ \E n \in CfgNetworks : RemoveConfig(n)
    \/ \E n \in CfgNetworks : LoadConfig(n)

SpecCfg == InitCfg /\ [][NextCfg]_vars

----------------------------------------------------------------------------
(* Properties of the config operations (SpecCfg)                           *)

CfgPath == config_path(WorkDir, last'.network)

WalletFields(c) == <<c.encryptedwalletkey, c.keyroot, c.lookahead, c.birth>>

\* C3: init_config is a no-op (returns empty, config file and database
\* unchanged) exactly when the config file exists; in every other case, and
\* only then, it creates a new wallet, stores its coins and master account
\* and writes a config.
C3_NoopExactlyWhenFileExists ==
    [][last'.op = "init_config" /\ last'.io = "ok" =>
         IF fs[CfgPath].cfg.exists
         THEN /\ last'.ret = Ok(NoneV)
              /\ fs'[CfgPath].cfg = fs[CfgPath].cfg
              /\ fs'[CfgPath].db = fs[CfgPath].db
              /\ wallets' = wallets
         ELSE /\ last'.ret.ok /\ last'.ret.v.some
              /\ wallets' = wallets + 1
              /\ fs'[CfgPath].db.exists
              /\ load(fs'[CfgPath]).ok]_vars

\* C4: after an init_config on an empty work directory returned a mnemonic
\* and deposit address, every further init_config on that directory (not
\* removed since) returns empty and leaves the stored encryptedwalletkey,
\* keyroot, birth and lookahead of the first call unchanged.
C4_SecondInitReturnsEmpty ==
    [][last'.op = "init_config" /\ inited.some =>
         /\ last'.ret = Ok(NoneV)
         /\ load(fs'[CfgPath]).ok
         /\ WalletFields(load(fs'[CfgPath]).v) = WalletFields(inited.v)]_vars

\* C8: a successful update_config replaces exactly bitcoin_peers (same
\* elements, same order), bitcoin_connections and bitcoin_discovery of the
\* stored config, leaves the other five fields unchanged, and the config it
\* returns is the config a following load_config or remove_config returns.
C8_UpdateFrame ==
    [][/\ last'.op = "update_config" /\ last'.ret.ok =>
            /\ load(fs[CfgPath]).ok
            /\ last'.ret.v.bitcoin_peers = last'.bitcoin_peers
            /\ last'.ret.v.bitcoin_connections = last'.bitcoin_connections
            /\ last'.ret.v.bitcoin_discovery = last'.bitcoin_discovery
            /\ WalletFields(last'.ret.v) = WalletFields(load(fs[CfgPath]).v)
            /\ last'.ret.v.network = load(fs[CfgPath]).v.network
            /\ load(fs'[CfgPath]) = last'.ret
            /\ fs'[CfgPath].db = fs[CfgPath].db
       /\ /\ last.op = "update_config" /\ last.ret.ok
          /\ last'.op \in {"load_config", "remove_config"}
          => last'.ret = last.ret]_vars

C8_Witness ==
    /\ inited.some
    /\ last.op = "update_config" /\ last.ret.ok
    /\ last.bitcoin_peers = <<Peer1, Peer2>>
    /\ load(fs[config_path(WorkDir, last.network)]).v.bitcoin_peers = <<Peer1, Peer2>>
    /\ last.ret.v.encryptedwalletkey = inited.v.encryptedwalletkey

\* C9: remove_config returns the config as stored immediately before the
\* removal; after it succeeds every load fails until a new config is saved,
\* so a following init_config creates a new wallet instead of returning
\* empty.
C9_RemoveThenLoadFails ==
    [][/\ last'.op = "remove_config" /\ last'.ret.ok =>
            /\ last'.ret = load(fs[CfgPath])
            /\ ~fs'[CfgPath].cfg.exists
            /\ ~load(fs'[CfgPath]).ok
       /\ ~load(fs[CfgPath]).ok /\ last'.op \in {"load_config", "update_config", "remove_config"}
            => ~last'.ret.ok /\ ~load(fs'[CfgPath]).ok
       /\ ~load(fs[CfgPath]).ok /\ last'.op = "init_config"
            => /\ last'.ret # Ok(NoneV)
               /\ wallets' = wallets + 1
               /\ load(fs'[CfgPath]).ok <=> last'.ret.ok]_vars

C9_Witness ==
    /\ last.op = "remove_config" /\ last.ret.ok
    /\ last.ret.v.bitcoin_peers = <<Peer2>>
    /\ ~fs[config_path(WorkDir, last.network)].cfg.exists
    /\ ~load(fs[config_path(WorkDir, last.network)]).ok

----------------------------------------------------------------------------
(* SpecSaveLoad: config::save, config::load and config::remove applied to  *)
(* the file ./test1/testnet/bdk.cfg with arbitrary Config values           *)

SLPath == config_path("./test1", "Testnet")

ConfigValues ==
    [encryptedwalletkey : {"encryptedwalletkey"},
     keyroot : {"keyroot"},
     lookahead : {KEY_LOOK_AHEAD},
     birth : {0} \cup Times,
     network : Networks,
     bitcoin_peers : PeerLists,
     bitcoin_connections : {10},
     bitcoin_discovery : BOOLEAN]

NothingSaved == [some |-> FALSE, n |-> 0]

InitSaveLoad ==
    /\ fs = [p \in {SLPath} |-> EmptyDir]
    /\ wallets = 0
    /\ last = NoCall
    /\ tick = 0
    /\ inited = NoneV
    /\ saved = NothingSaved
    /\ RunIdle

Did(c) ==
    /\ last' = c
    /\ tick' = 1 - tick
    /\ UNCHANGED <<wallets, inited>>
    /\ UNCHANGED runVars

Save(config, io) ==
    LET s == save(fs[SLPath], config, io)
    IN  /\ fs' = [fs EXCEPT ![SLPath] = s.d]
        /\ saved' = IF s.r.ok
                    THEN [some |-> TRUE, v |-> config,
                          n |-> IF saved.n = 0 THEN 1 ELSE 2]
                    ELSE NothingSaved
        /\ Did([op |-> "save", ret |-> s.r])

Load ==
    /\ UNCHANGED <<fs, saved>>
    /\ Did([op |-> "load", ret |-> load(fs[SLPath])])

Remove ==
    LET s == remove(fs[SLPath])
    IN  /\ fs' = [fs EXCEPT ![SLPath] = s.d]
        /\ saved' = IF s.r.ok THEN NothingSaved ELSE saved
        /\ Did([op |-> "remove", ret |-> s.r])

NextSaveLoad ==
    \/ \E c \in ConfigValues, io \in IoOutcomes : Save(c, io)
    \/ Load
    \/ Remove

SpecSaveLoad == InitSaveLoad /\ [][NextSaveLoad]_vars

----------------------------------------------------------------------------
(* The process-wide slot CONTENT_STORE and the calls start, stop, balance  *)
(* and deposit_addr made on it by concurrent threads.                      *)
(*                                                                         *)
(* stores[s] is the ContentStore behind the s-th Arc<RwLock<ContentStore>>:*)
(* its stop flag, its wallet, and the readers and the writer of its        *)
(* RwLock.  supervisors[s] is the P2PBitcoin created with it.              *)

Threads == {"t1", "t2", "t3"}

\* the work directories start is called on: one initialised by init_config,
\* one empty, and one whose bdk.cfg was truncated by a failed save
GoodDir == "./wallet"
NoCfgDir == "./empty"
BadCfgDir == "./broken"
RunDirs == {GoodDir, NoCfgDir, BadCfgDir}
RunNetwork == "Regtest"

Genesis == [hash |-> "genesis", time |-> 1296688602]

RunFs ==
    LET good == init_config(EmptyDir, 1, RunNetwork, "hunter2", NoneV,
                            1577836800, "ok").d
        bad == init_config(EmptyDir, 2, RunNetwork, "hunter2", NoneV,
                           1577836800, "write_fails").d
    IN  [p \in {config_path(w, RunNetwork) : w \in RunDirs} |->
            CASE p[1] = GoodDir -> good
              [] p[1] = BadCfgDir -> bad
              [] OTHER -> EmptyDir]

Idle == [v |-> "none", why |-> "none"]
Returned(v, why) == [v |-> v, why |-> why]

InitRun ==
    /\ fs = RunFs
    /\ wallets = 2
    /\ last = NoCall
    /\ tick = 0
    /\ inited = NoneV
    /\ saved = NoneV
    /\ slot = NoneV
    /\ poisoned = FALSE
    /\ stores = <<>>
    /\ supervisors = <<>>
    /\ pc = [t \in Threads |-> "idle"]
    /\ call = [t \in Threads |-> NoCall]
    /\ handle = [t \in Threads |-> 0]
    /\ ret = [t \in Threads |-> Idle]

\* ChainDB::new(..).init(): the header file holds at least the genesis header
chain_init(d) ==
    IF d.chain.exists THEN d ELSE [d EXCEPT !.chain = [exists |-> TRUE, trunk |-> <<Genesis>>]]

\* open_db: Connection::open creates bdk.db when it is missing
open_db(d) ==
    IF d.db.exists THEN d
    ELSE [d EXCEPT !.db = [exists |-> TRUE, coins |-> {}, account |-> {},
                           processed |-> NoneV, txout |-> {}]]

\* TX::read_account(account, sub): the row must exist
read_account_ok(d, account, sub) ==
    \E r \in d.db.account : r.account = account /\ r.sub = sub

\* the newest trunk header whose time is before birth (iter_trunk_rev)
rescan_after(trunk, birth) ==
    LET older == {i \in 1..Len(trunk) : trunk[i].time < birth}
    IN  IF older = {} THEN NoneV
        ELSE Some(trunk[CHOOSE i \in older : \A j \in older : j <= i].hash)

\* TX::rescan(after): update processed, delete from txout, delete from coins
rescan(d, after) ==
    [d EXCEPT !.db.processed = IF d.db.processed.some THEN Some(after) ELSE NoneV,
              !.db.txout = {},
              !.db.coins = {}]

\* ContentStore::new(db, trunk, wallet)
ContentStore_new(coins) ==
    [stopped |-> FALSE, coins |-> coins, kix |-> 0, readers |-> {}, writer |-> "none"]

MaxKeys == 1

\* the store is held through Arc clones: the slot, the installing start and
\* every caller between its GetStore and its return hold one, and the store
\* is freed when the last of them is dropped
Freed == [stopped |-> TRUE, coins |-> {}, kix |-> 0, readers |-> {}, writer |-> "freed"]

Arc_drop(ss, hs, sl) ==
    [s \in 1..Len(ss) |->
        IF sl = Some(s) \/ \E t \in Threads : hs[t] = s THEN ss[s] ELSE Freed]

otherCfg == <<wallets, last, tick, inited, saved>>

Finish(t, v, why) ==
    /\ pc' = [pc EXCEPT ![t] = "idle"]
    /\ ret' = [ret EXCEPT ![t] = Returned(v, why)]

Panic(t, why) ==
    /\ pc' = [pc EXCEPT ![t] = "panicked"]
    /\ ret' = [ret EXCEPT ![t] = Returned("panic", why)]

\* start's test of the slot: cs.is_some()
slot_is_some_m == FALSE

slot_is_some == slot.some

\* start, from CONTENT_STORE.write() to the end of the match: everything up
\* to P2PBitcoin::new runs with the write lock of the slot held
StartLocked(t, work_dir, rescan_arg) ==
    LET p == config_path(work_dir, RunNetwork)
        config == load(fs[p])
        d1 == open_db(chain_init(fs[p]))
        after == rescan_after(d1.chain.trunk, config.v.birth)
        d2 == IF rescan_arg /\ after.some THEN rescan(d1, after.v) ELSE d1
        s == Len(stores) + 1
    IN  /\ pc[t] = "idle"
        /\ call' = [call EXCEPT ![t] = [op |-> "start"]]
        /\ UNCHANGED otherCfg
        /\ IF poisoned
           THEN /\ Finish(t, "Ok", "poisoned")
                /\ UNCHANGED <<fs, slot, poisoned, stores, supervisors, handle>>
           ELSE IF slot_is_some
           THEN /\ Finish(t, "Ok", IF stores[slot.v].stopped THEN "exists, stopping"
                                                            ELSE "exists")
                /\ UNCHANGED <<fs, slot, poisoned, stores, supervisors, handle>>
           ELSE IF ~config.ok
           THEN /\ Panic(t, "can not open config file")
                /\ poisoned' = TRUE
                /\ UNCHANGED <<fs, slot, stores, supervisors, handle>>
           ELSE IF ~(/\ read_account_ok(d1, 0, 0) /\ read_account_ok(d1, 0, 1)
                     /\ read_account_ok(d1, 1, 0))
           THEN /\ Panic(t, "can not read account")
                /\ poisoned' = TRUE
                /\ fs' = [fs EXCEPT ![p] = d1]
                /\ UNCHANGED <<slot, stores, supervisors, handle>>
           ELSE /\ Len(stores) < MaxStores
                /\ fs' = [fs EXCEPT ![p] = d2]
                /\ stores' = Append(stores, ContentStore_new(d2.db.coins))
                /\ slot' = Some(s)
                /\ supervisors' = Append(supervisors, "new")
                /\ handle' = [handle EXCEPT ![t] = s]
                /\ pc' = [pc EXCEPT ![t] = "p2p_start"]
                /\ ret' = [ret EXCEPT ![t] = Idle]
                /\ UNCHANGED poisoned

\* p2p_bitcoin.start(&mut thread_pool)
P2PStart(t) ==
    /\ pc[t] = "p2p_start"
    /\ supervisors' = [supervisors EXCEPT ![handle[t]] = "started"]
    /\ pc' = [pc EXCEPT ![t] = "poll"]
    /\ UNCHANGED <<fs, otherCfg, slot, poisoned, stores, call, handle, ret>>

\* check_stopped: after the 100 ms Delay, store.read()
PollAcquire(t) ==
    /\ pc[t] = "poll"
    /\ stores[handle[t]].writer = "none"
    /\ stores' = [stores EXCEPT ![handle[t]].readers = @ \cup {t}]
    /\ pc' = [pc EXCEPT ![t] = "poll_read"]
    /\ UNCHANGED <<fs, otherCfg, slot, poisoned, supervisors, call, handle, ret>>

\* the loop of check_stopped leaving at once, whatever the flag
check_stopped_next_m(stopped) == "cleanup"

\* check_stopped: while !stopped { ... stopped = ...get_stopped() }
check_stopped_next(stopped) == IF stopped THEN "cleanup" ELSE "poll"

PollRead(t) ==
    /\ pc[t] = "poll_read"
    /\ stores' = [stores EXCEPT ![handle[t]].readers = @ \ {t}]
    /\ pc' = [pc EXCEPT ![t] = check_stopped_next(stores[handle[t]].stopped)]
    /\ UNCHANGED <<fs, otherCfg, slot, poisoned, supervisors, call, handle, ret>>

\* the value start leaves in the slot on exit
released_slot_m == slot

\* *cs = Option::None
released_slot == NoneV

\* start after thread_pool.run returned: clear the slot, shut the supervisor
\* down, return Ok(())
Cleanup(t) ==
    /\ pc[t] = "cleanup"
    /\ IF poisoned
       THEN /\ Panic(t, "poisoned")
            /\ UNCHANGED <<slot, supervisors, handle>>
       ELSE /\ slot' = released_slot
            /\ supervisors' = [supervisors EXCEPT ![handle[t]] = "shutdown"]
            /\ handle' = [handle EXCEPT ![t] = 0]
            /\ Finish(t, "Ok", "stopped")
    /\ stores' = Arc_drop(stores, handle', slot')
    /\ UNCHANGED <<fs, otherCfg, poisoned, call>>

\* CONTENT_STORE.read().unwrap().as_ref().unwrap().clone(), the first line
\* of stop, balance and deposit_addr
GetStore(t, op) ==
    /\ pc[t] = "idle"
    /\ call' = [call EXCEPT ![t] = [op |-> op]]
    /\ IF poisoned
       THEN Panic(t, "poisoned") /\ UNCHANGED handle
       ELSE IF ~slot.some
       THEN Panic(t, "not started") /\ UNCHANGED handle
       ELSE /\ handle' = [handle EXCEPT ![t] = slot.v]
            /\ pc' = [pc EXCEPT ![t] = op]
            /\ ret' = [ret EXCEPT ![t] = Idle]
    /\ UNCHANGED <<fs, otherCfg, slot, poisoned, stores, supervisors>>

\* store.read()
LockRead(t) ==
    /\ pc[t] = "balance"
    /\ stores[handle[t]].writer = "none"
    /\ stores' = [stores EXCEPT ![handle[t]].readers = @ \cup {t}]
    /\ pc' = [pc EXCEPT ![t] = "balance_locked"]
    /\ UNCHANGED <<fs, otherCfg, slot, poisoned, supervisors, call, handle, ret>>

\* the position of a caller that holds the guard of store.write()
write_locked(op) ==
    CASE op = "stop" -> "stop_locked"
      [] op = "deposit_addr" -> "deposit_addr_locked"
      [] op = "withdraw" -> "withdraw_locked"

\* a store.write() that waits for nobody
LockWrite_m(t) ==
    /\ pc[t] \in {"stop", "deposit_addr", "withdraw"}
    /\ pc[t] = "deposit_addr" => stores[handle[t]].kix < MaxKeys
    /\ stores' = [stores EXCEPT ![handle[t]].writer = t]
    /\ pc' = [pc EXCEPT ![t] = write_locked(pc[t])]
    /\ UNCHANGED <<fs, otherCfg, slot, poisoned, supervisors, call, handle, ret>>

\* store.write()
LockWrite(t) ==
    /\ pc[t] \in {"stop", "deposit_addr", "withdraw"}
    /\ stores[handle[t]].writer = "none"
    /\ stores[handle[t]].readers = {}
    /\ pc[t] = "deposit_addr" => stores[handle[t]].kix < MaxKeys
    /\ stores' = [stores EXCEPT ![handle[t]].writer = t]
    /\ pc' = [pc EXCEPT ![t] = write_locked(pc[t])]
    /\ UNCHANGED <<fs, otherCfg, slot, poisoned, supervisors, call, handle, ret>>

\* stop: set_stopped(true), drop the guard, return
StopSet(t) ==
    /\ pc[t] = "stop_locked"
    /\ handle' = [handle EXCEPT ![t] = 0]
    /\ stores' = Arc_drop([stores EXCEPT ![handle[t]].stopped = TRUE,
                                         ![handle[t]].writer = "none"], handle', slot)
    /\ Finish(t, "Ok", "flag raised")
    /\ UNCHANGED <<fs, otherCfg, slot, poisoned, supervisors, call>>

\* balance: read the balances, drop the guard, return Ok(BalanceAmt)
BalanceRead(t) ==
    /\ pc[t] = "balance_locked"
    /\ handle' = [handle EXCEPT ![t] = 0]
    /\ stores' = Arc_drop([stores EXCEPT ![handle[t]].readers = @ \ {t}], handle', slot)
    /\ Finish(t, "Ok", "balance")
    /\ UNCHANGED <<fs, otherCfg, slot, poisoned, supervisors, call>>

\* deposit_addr: advance the external sub-account by one key, drop the
\* guard, return the address
DepositWrite(t) ==
    /\ pc[t] = "deposit_addr_locked"
    /\ handle' = [handle EXCEPT ![t] = 0]
    /\ stores' = Arc_drop([stores EXCEPT ![handle[t]].kix = @ + 1,
                                         ![handle[t]].writer = "none"], handle', slot)
    /\ Finish(t, "Ok", "address")
    /\ UNCHANGED <<fs, otherCfg, slot, poisoned, supervisors, call>>

NextRun ==
    \/ \E t \in Threads, w \in RunDirs, r \in BOOLEAN : StartLocked(t, w, r)
    \/ \E t \in Threads : P2PStart(t)
    \/ \E t \in Threads : PollAcquire(t)
    \/ \E t \in Threads : PollRead(t)
    \/ \E t \in Threads : Cleanup(t)
    \/ \E t \in Threads, op \in {"stop", "balance", "deposit_addr"} : GetStore(t, op)
    \/ \E t \in Threads : LockRead(t)
    \/ \E t \in Threads : LockWrite(t)
    \/ \E t \in Threads : StopSet(t)
    \/ \E t \in Threads : BalanceRead(t)
    \/ \E t \in Threads : DepositWrite(t)

SpecRun == InitRun /\ [][NextRun]_vars

\* a step of thread t that waits for nothing: its guard is its position only
Proceed(t) ==
    \/ P2PStart(t) \/ PollRead(t) \/ Cleanup(t)
    \/ StopSet(t) \/ BalanceRead(t) \/ DepositWrite(t)

\* the scheduling the executor and the lock give: a thread that holds a
\* guard or has work to do goes on, and a thread waiting for the store's
\* lock at a poll gets it when it is free again and again
FairRun ==
    /\ SpecRun
    /\ \A t \in Threads : WF_vars(Proceed(t)) /\ SF_vars(PollAcquire(t))

----------------------------------------------------------------------------
(* Properties of start, stop, balance and deposit_addr (SpecRun, FairRun)  *)

\* the positions of a start call that has installed its store
InstallerPcs == {"p2p_start", "poll", "poll_read", "cleanup"}

Installers == {t \in Threads : pc[t] \in InstallerPcs}

LiveSupervisors == {s \in 1..Len(supervisors) : supervisors[s] # "shutdown"}

\* thread t takes the step StartLocked
StartStep(t) ==
    /\ pc[t] = "idle"
    /\ call'[t].op = "start"
    /\ <<pc[t], call[t], ret[t]>> # <<pc'[t], call'[t], ret'[t]>>

\* C1: over every interleaving of start calls at most one call at a time
\* has a store installed in the slot and a supervisor created; a start
\* that finds the slot occupied returns success at once without creating a
\* store or a supervisor, so at no time do two supervisors exist.
C1_SingleSupervisor ==
    /\ [](/\ Cardinality(LiveSupervisors) <= 1
          /\ Cardinality(Installers) <= 1
          /\ \A t \in Installers : slot = Some(handle[t])
          /\ \A s \in LiveSupervisors : slot = Some(s))
    /\ [][\A t \in Threads :
            StartStep(t) /\ slot.some /\ ~poisoned =>
               /\ pc'[t] = "idle" /\ ret'[t].v = "Ok"
               /\ <<slot, stores, supervisors>> = <<slot', stores', supervisors'>>]_vars

C1_Witness ==
    \E t1, t2 \in Threads :
        /\ pc[t1] = "poll" /\ supervisors[handle[t1]] = "started"
        /\ call[t2].op = "start" /\ pc[t2] = "idle" /\ ret[t2].why = "exists"
        /\ Len(stores) = 2

\* C2: a start call that installed the store does not return while the
\* stop flag is unset; once stop() has raised the flag, that call observes
\* it at a poll of check_stopped, shuts the supervisor down, empties the
\* slot and returns Ok.
C2_ReturnsOnlyAfterStop ==
    /\ [][\A t \in Threads :
            pc[t] \in InstallerPcs /\ pc'[t] \notin InstallerPcs =>
               /\ stores[handle[t]].stopped
               /\ pc'[t] = "idle" /\ ret'[t] = Returned("Ok", "stopped")
               /\ slot' = NoneV
               /\ supervisors'[handle[t]] = "shutdown"]_vars
    /\ [][slot.some /\ ~slot'.some =>
            \E t \in Threads : /\ pc[t] = "cleanup" /\ pc'[t] = "idle"
                                /\ slot = Some(handle[t])]_vars
    /\ (slot.some /\ stores[slot.v].stopped) ~> ~slot.some

C2_Witness ==
    \E t \in Threads :
        /\ call[t].op = "start" /\ pc[t] = "idle"
        /\ ret[t] = Returned("Ok", "stopped")
        /\ slot = NoneV /\ supervisors[1] = "shutdown"

\* C5: balance() and deposit_addr() called while no store is installed
\* report a not-started error to the caller instead of aborting the calling
\* thread.
C5_NotStartedIsAnError ==
    \A t \in Threads :
        call[t].op \in {"balance", "deposit_addr"} /\ ret[t].why = "not started"
            => pc[t] = "idle" /\ ret[t].v = "Err"

\* C6: start on a work directory whose config file is missing or malformed
\* returns an error to its caller, installs no store and leaves the slot
\* empty and usable for a later start with a valid config.
C6_StartReportsConfigError ==
    /\ ~poisoned
    /\ \A t \in Threads :
          call[t].op = "start" /\ ret[t].why = "can not open config file"
             => pc[t] = "idle" /\ ret[t].v = "Err"

\* thread t takes the step StopSet: stop() returns
StopReturns(t) == pc[t] = "stop_locked" /\ pc'[t] = "idle"

\* C7 as claimed: once stop() has returned the slot holds no store, so a
\* start issued after it installs a fresh store and supervisor rather than
\* returning success on the store being stopped.
C7_StopClearsSlot ==
    [][\A t \in Threads :
         /\ StopReturns(t) => slot' = NoneV
         /\ StartStep(t) /\ pc'[t] = "idle" /\ ~poisoned /\ slot.some
               => ~stores[slot.v].stopped]_vars

\* C7 amended: stop() only raises the stop flag and leaves the slot as it
\* is; the start call that installed the store clears the slot when it has
\* observed the flag, and a start that finds the slot empty then installs a
\* fresh store and supervisor, while a start made earlier returns success
\* on the store being stopped.
C7_StartClearsSlot ==
    [][\A t \in Threads :
         /\ StopReturns(t) => slot' = slot /\ stores'[handle[t]].stopped
         /\ pc[t] = "cleanup" /\ pc'[t] = "idle" => slot' = NoneV
         /\ StartStep(t) /\ ~poisoned /\ slot.some
               => pc'[t] = "idle" /\ slot' = slot
         /\ StartStep(t) /\ ~poisoned /\ ~slot.some /\ pc'[t] # "panicked"
               => /\ slot' = Some(Len(stores) + 1)
                  /\ ~stores'[slot'.v].stopped
                  /\ supervisors'[slot'.v] = "new"]_vars

C7_Witness ==
    \E t1, t2, t3 \in Threads :
        /\ call[t1].op = "stop" /\ pc[t1] = "idle" /\ ret[t1].why = "flag raised"
        /\ call[t2].op = "start" /\ pc[t2] = "idle" /\ ret[t2].why = "exists, stopping"
        /\ pc[t3] \in InstallerPcs /\ slot = Some(handle[t3])
        /\ stores[handle[t3]].stopped

----------------------------------------------------------------------------
(* The data store of src/src/db.rs: the tables of bdk.db and the TX        *)
(* operations on them.  A table is the set of its rows; a table with a     *)
(* single row by construction (seed, processed) is an Option.              *)

ADDRESS_SLOTS == 10000

\* TX::create_tables on a new database file
create_tables ==
    [exists |-> TRUE, seed |-> NoneV, address |-> {}, account |-> {},
     coins |-> {}, processed |-> NoneV, txout |-> {}]

\* the (k0, k1) pairs thread_rng().next_u64() may deliver
Seeds == {<<3, 5>>, <<11, 7>>}

\* a read_seed that draws a pair on every call and stores none
read_seed_m(db, k) == [db |-> db, ret |-> Ok(k)]

\* TX::read_seed with the pair k drawn if the seed table is empty
read_seed(db, k) ==
    IF db.seed.some THEN [db |-> db, ret |-> Ok(db.seed.v)]
    ELSE [db |-> [db EXCEPT !.seed = Some(k)], ret |-> Ok(k)]

\* NetAddress::new(socket).address: the segments of the IP, without the port
NetAddress_new(socket) == socket.ip

\* the bytes store_address feeds the hasher, as a number
HashInput(network, segments) ==
    (CASE network = "bitcoin" -> 100 [] network = "testnet" -> 200 [] OTHER -> 300)
    + (CASE segments = "127.0.0.1" -> 1 [] segments = "10.0.0.10" -> 2 [] OTHER -> 3)

\* SipHasher::new_with_keys(k0, k1) .. finish(): a function of the keys and
\* of the bytes written
SipHasher_finish(k0, k1, input) == k0 + k1 * input * input

\* store_address: the slot of (network, address)
slot_of(seed, network, address) ==
    SipHasher_finish(seed[1], seed[2], HashInput(network, NetAddress_new(address)))
        % ADDRESS_SLOTS

BAN_TIME == 60 * 60 * 24

OLD_CONNECTION == 5 * 24 * 60 * 60

Max(a, b) == IF a >= b THEN a ELSE b
Min(a, b) == IF a <= b THEN a ELSE b

AddressRow(network, slt, address, connected, last_seen, banned) ==
    [network |-> network, slot |-> slt, ip |-> SocketAddr_to_string(address),
     connected |-> connected, last_seen |-> last_seen, banned |-> banned]

\* an insert that keeps the row already in the slot
insert_or_replace_address_m(table, row) == table \cup {row}

\* insert or replace into address: primary key (network, slot)
insert_or_replace_address(table, row) ==
    {r \in table : ~(r.network = row.network /\ r.slot = row.slot)} \cup {row}

\* the row of (network, slot), if any
address_at(table, network, slt) ==
    {r \in table : r.network = network /\ r.slot = slt}

\* the eviction test made against all occupants alike
evicts_m(oldconnect, oldban, now) == TRUE

\* store_address: oldban > 0 || oldconnect < now - OLD_CONNECTION
evicts(oldconnect, oldban, now) == oldban > 0 \/ oldconnect < now - OLD_CONNECTION

\* TX::store_address at time now, with the pair k drawn if there is no seed
store_address(db, network, address, connected, last_seen, banned, now, k) ==
    LET s == read_seed(db, k)
        slt == slot_of(s.ret.v, network, address)
        found == address_at(s.db.address, network, slt)
        old == CHOOSE r \in found : TRUE
        Write(c, l, b) ==
            [db |-> [s.db EXCEPT !.address =
                        insert_or_replace_address(@, AddressRow(network, slt, address, c, l, b))],
             ret |-> Ok(1)]
    IN  IF found = {} THEN Write(connected, last_seen, banned)
        ELSE IF SocketAddr_from_str(old.ip) # address
        THEN IF evicts(old.connected, old.banned, now)
             THEN Write(connected, last_seen, banned)
             ELSE [db |-> s.db, ret |-> Ok(0)]
        ELSE Write(Max(old.connected, connected), Max(old.last_seen, last_seen),
                   Max(old.banned, banned))

\* the orders "order by last_seen desc" may deliver the rows of S in
SortedDesc(S) ==
    {q \in [1..Cardinality(S) -> S] :
        /\ \A i, j \in 1..Cardinality(S) : i # j => q[i] # q[j]
        /\ \A i, j \in 1..Cardinality(S) : i < j => q[i].last_seen >= q[j].last_seen}

\* the query of get_an_address: network = ?2 and banned < ?1
not_banned_rows_m(table, network, now) == {r \in table : r.banned < now - BAN_TIME}

not_banned_rows(table, network, now) ==
    {r \in table : r.network = network /\ r.banned < now - BAN_TIME}

\* TX::get_an_address at time now, the query delivering the rows in the
\* order rows and the Poisson sample being sample
get_an_address(rows, other_than, sample) ==
    LET Keep(a) == a \notin other_than
        parsed == [i \in 1..Len(rows) |-> SocketAddr_from_str(rows[i].ip)]
        eligible == SelectSeq(parsed, Keep)
        len == Len(eligible)
    IN  IF len = 0 THEN Ok(NoneV)
        ELSE Ok(Some(eligible[Min(len - 1, sample) + 1]))

----------------------------------------------------------------------------
(* SpecBook: the address book.  One session after the other calls          *)
(* store_address, get_an_address and read_seed on the store while the      *)
(* clock advances.                                                         *)

MaxTicks == 2
MaxSample == 1

BookPath == config_path("./book", "Bitcoin")
Book == fs[BookPath].db

Peer3 == [ip |-> "127.0.0.1", port |-> 8080]
BookAddrs == {Peer1, Peer2, Peer3}
BookNetworks == {"bitcoin", "testnet"}

\* SystemTime::now() as seconds since the epoch, at clock position k: the
\* positions are a day, five days, six days, ... after the first
T0 == 20 * BAN_TIME
now_at(k) == T0 + (k \div 2) * OLD_CONNECTION + (k % 2) * BAN_TIME
Now == now_at(tick)

\* the arguments of the store_address calls made at time now: Peer1 and
\* Peer3 share the IP and so the slot
StoreInputs(now) ==
    [network : {"bitcoin"}, address : {Peer1, Peer3},
     connected : {0, now}, last_seen : {0, now}, banned : {0, now}]

\* the store_address calls of SpecPick: no two of the addresses collide
PickInputs(now) ==
    [network : {"bitcoin"}, address : {Peer1, Peer2},
     connected : {0}, last_seen : {0, now}, banned : {0, now}]
    \cup [network : {"testnet"}, address : {Peer2},
          connected : {T0}, last_seen : {T0}, banned : {0}]

\* the sets of connected peers get_an_address is asked to leave out
Excludes == {{}, {Peer1}, {Peer2, Peer3}}

\* the pairs read_seed may draw: it draws only when the seed table is empty
Draws == IF Book.seed.some THEN {Book.seed.v} ELSE Seeds

InitBook ==
    /\ fs = [p \in {BookPath} |-> [EmptyDir EXCEPT !.dir = TRUE, !.db = create_tables]]
    /\ wallets = 0
    /\ last = NoCall
    /\ tick = 0
    /\ inited = NoneV
    /\ saved = 0
    /\ RunIdle

\* saved: the latest time Peer1 was reported banned on "bitcoin" (0: never)
StoreAddress(in, k) ==
    LET r == store_address(Book, in.network, in.address, in.connected,
                           in.last_seen, in.banned, Now, k)
    IN  /\ fs' = [fs EXCEPT ![BookPath].db = r.db]
        /\ last' = [op |-> "store_address", ret |-> r.ret]
        /\ saved' = IF in.address = Peer1 THEN Max(saved, in.banned) ELSE saved
        /\ UNCHANGED <<wallets, tick, inited>>
        /\ UNCHANGED runVars

GetAnAddress(network, other_than, rows, sample) ==
    /\ rows \in SortedDesc(not_banned_rows(Book.address, network, Now))
    /\ last' = [op |-> "get_an_address", network |-> network, other_than |-> other_than,
                sample |-> sample, ret |-> get_an_address(rows, other_than, sample)]
    /\ UNCHANGED <<fs, wallets, tick, inited, saved>>
    /\ UNCHANGED runVars

ReadSeed(k) ==
    LET r == read_seed(Book, k)
    IN  /\ fs' = [fs EXCEPT ![BookPath].db = r.db]
        /\ last' = [op |-> "read_seed", ret |-> r.ret]
        /\ UNCHANGED <<wallets, tick, inited, saved>>
        /\ UNCHANGED runVars

Sleep ==
    /\ tick < MaxTicks
    /\ tick' = tick + 1
    /\ last' = [op |-> "sleep"]
    /\ UNCHANGED <<fs, wallets, inited, saved>>
    /\ UNCHANGED runVars

NextBook ==
    \/ \E in \in StoreInputs(Now), k \in Draws : StoreAddress(in, k)
    \/ \E o \in Excludes, s \in 0..MaxSample :
          \E rows \in SortedDesc(not_banned_rows(Book.address, "bitcoin", Now)) :
              GetAnAddress("bitcoin", o, rows, s)
    \/ \E k \in Draws : ReadSeed(k)
    \/ Sleep

SpecBook == InitBook /\ [][NextBook]_vars

------------------------------------------------------------------------\* SpecPick: get_an_address over a book holding rows of two networks
NextPick ==
    \/ \E in \in PickInputs(Now), k \in Draws : StoreAddress(in, k)
    \/ \E n \in BookNetworks, o \in Excludes, s \in 0..MaxSample :
          \E rows \in SortedDesc(not_banned_rows(Book.address, n, Now)) :
              GetAnAddress(n, o, rows, s)
    \/ Sleep

SpecPick == InitBook /\ [][NextPick]_vars

----
(* Properties of the address book (SpecBook)                               *)

\* C11: a store_address call whose address differs from the occupant of
\* the slot it hashes to replaces the occupant only if the occupant is
\* banned (banned > 0) or was last connected more than five days before
\* now; otherwise the row is left unchanged and the call reports 0 rows
\* written.  No other row changes either way.
C11_EvictOnlyBannedOrOld ==
    [][last'.op = "store_address" =>
        \A in \in StoreInputs(Now), k \in Draws :
          StoreAddress(in, k) =>
             LET slt == slot_of(read_seed(Book, k).ret.v, in.network, in.address)
                 occ == address_at(Book.address, in.network, slt)
             IN  \A o \in occ :
                   SocketAddr_from_str(o.ip) # in.address =>
                     /\ Book'.address \ address_at(Book'.address, in.network, slt)
                           = Book.address \ occ
                     /\ IF o.banned > 0 \/ o.connected + OLD_CONNECTION < Now
                        THEN /\ address_at(Book'.address, in.network, slt) =
                                  {AddressRow(in.network, slt, in.address, in.connected,
                                              in.last_seen, in.banned)}
                             /\ last'.ret = Ok(1)
                        ELSE /\ address_at(Book'.address, in.network, slt) = occ
                             /\ last'.ret = Ok(0)]_vars

C11_Witness ==
    /\ last.op = "store_address" /\ last.ret = Ok(0)
    /\ \E r \in Book.address :
          /\ r.ip = SocketAddr_to_string(Peer3)
          /\ r.banned = 0 /\ r.connected > 0
          /\ r.connected + OLD_CONNECTION = Now

\* C12: over any sequence of store_address calls, collisions included, the
\* last_seen and banned values recorded in a (network, slot) never
\* decrease.
C12_SlotValuesNeverDecrease ==
    [][\A r \in Book.address, q \in Book'.address :
          r.network = q.network /\ r.slot = q.slot =>
             q.last_seen >= r.last_seen /\ q.banned >= r.banned]_vars

\* C13: once Peer1 has been stored with banned = t, get_an_address does
\* not return it at any time up to t + 24 hours, whatever store_address
\* calls happened in between.
C13_BannedNotReturned ==
    last.op = "get_an_address" /\ last.ret.v = Some(Peer1)
        => saved = 0 \/ Now > saved + BAN_TIME

\* C14: get_an_address(network, exclude_set) returns only an address
\* stored for that network whose banned time is more than 24 hours before
\* now and that is not in exclude_set; it returns none exactly when there
\* is no such address, and otherwise the element at an index within
\* 0..len-1 of the eligible list sorted by last_seen descending.
C14_ReturnsEligible ==
    [][last'.op = "get_an_address" /\ last' # last =>
         LET good == {r \in Book.address :
                         /\ r.network = last'.network
                         /\ r.banned + BAN_TIME < Now
                         /\ SocketAddr_from_str(r.ip) \notin last'.other_than}
             len == Cardinality(good)
             i == IF last'.sample < len - 1 THEN last'.sample ELSE len - 1
         IN  /\ last'.ret.ok
             /\ last'.ret.v = NoneV <=> good = {}
             /\ last'.ret.v.some =>
                   /\ i \in 0..(len - 1)
                   /\ \E q \in SortedDesc(good) :
                         last'.ret.v.v = SocketAddr_from_str(q[i + 1].ip)]_vars

C14_Witness ==
    /\ last.op = "get_an_address" /\ last.ret.v = Some(Peer2)
    /\ last.network = "bitcoin" /\ last.sample = MaxSample /\ last.other_than = {}
    /\ \E r \in Book.address :
          /\ r.network = "bitcoin" /\ r.ip = SocketAddr_to_string(Peer1)
          /\ r.banned > 0 /\ r.banned + BAN_TIME = Now
          /\ r.last_seen > 0
    /\ \E r \in Book.address : r.network = "testnet"

\* C19: the seed pair is created by the first read_seed and every later
\* read_seed returns the same pair, so every row of the address book sits
\* in the slot its address hashes to under that one pair.
C19_SeedStable ==
    /\ [][Book.seed.some => Book'.seed = Book.seed]_vars
    /\ [][last'.op = "read_seed" => \A k \in Draws : ReadSeed(k) =>
             /\ Book'.seed = Some(last'.ret.v)
             /\ Book.seed.some => last'.ret = Ok(Book.seed.v)]_vars
    /\ [](\A r \in Book.address :
             /\ Book.seed.some
             /\ r.slot = slot_of(Book.seed.v, r.network, SocketAddr_from_str(r.ip)))

C19_Witness ==
    /\ last.op = "read_seed" /\ last.ret = Ok(<<11, 7>>)
    /\ \E r \in Book.address : r.ip = SocketAddr_to_string(Peer3) /\ r.slot = 1418

----------------------------------------------------------------------------
(* The coins, txout and processed tables                                   *)

\* bitcoin::consensus::serialize / deserialize of a transaction
serialize(tx) == <<"tx", tx>>
deserialize(bytes) == bytes[2]

\* serde_cbor::ser::to_vec / serde_cbor::from_slice
cbor_to_vec(x) == <<"cbor", x>>
cbor_from_slice(bytes) == bytes[2]

\* hex::decode
hex_decode(text) == text[2]

\* "".to_string(): the hex text of no bytes
EmptyText == hex_encode(<<>>)

\* TX::store_txout: insert or replace into txout (txid, tx[, publisher, id,
\* term]); the columns not named, confirmed among them, are null
store_txout(db, tx, funding) ==
    [db EXCEPT !.txout = {r \in @ : r.txid # tx.txid} \cup
                         {[txid |-> tx.txid, tx |-> serialize(tx),
                           confirmed |-> NoneV, funding |-> funding]}]

\* the query of read_unconfirmed and read_coins taking every row
unconfirmed_rows_m(db) == db.txout

\* select .. from txout where confirmed is null
unconfirmed_rows(db) == {r \in db.txout : ~r.confirmed.some}

\* TX::read_unconfirmed: the transactions with their funding
read_unconfirmed(db) ==
    {[tx |-> deserialize(r.tx), funding |-> r.funding] : r \in unconfirmed_rows(db)}

\* TX::read_processed
read_processed(db) == Ok(db.processed)

\* a store_processed that writes only when no marker is there yet
store_processed_m(db, block_id) ==
    IF db.processed.some THEN db ELSE [db EXCEPT !.processed = Some(block_id)]

\* TX::store_processed: insert or replace into processed (rowid, block)
\* values (1, ?1)
store_processed(db, block_id) == [db EXCEPT !.processed = Some(block_id)]

\* the row store_coins inserts for a confirmed coin and its proof
coin_row(point, coin, proof) ==
    LET tweak == IF coin.derivation.tweak.some THEN hex_encode(coin.derivation.tweak.v)
                                               ELSE EmptyText
    IN  [txid |-> point.txid, vout |-> point.vout,
         value |-> coin.output.value, script |-> coin.output.script_pubkey,
         account |-> coin.derivation.account, sub |-> coin.derivation.sub,
         kix |-> coin.derivation.kix,
         tweak |-> IF tweak = EmptyText THEN NoneV ELSE Some(tweak),
         csv |-> coin.derivation.csv,
         proof |-> cbor_to_vec(proof)]

\* the coins table store_coins starts from, were it to keep the old rows
cleared_coins_m(db) == db.coins

\* delete from coins
cleared_coins(db) == {}

\* TX::store_coins; every confirmed coin of coins has its proof
store_coins(db, coins) ==
    LET proof_of(txid) == CHOOSE p \in coins.proofs : p.txid = txid
        rows == {coin_row(c.point, c.coin, proof_of(c.point.txid)) : c \in coins.confirmed}
        mark(r) == IF \E p \in coins.proofs : p.txid = deserialize(r.tx).txid
                   THEN [r EXCEPT !.confirmed = Some(proof_of(deserialize(r.tx).txid).block)]
                   ELSE r
        unconfirmed == unconfirmed_rows(db)
    IN  [db EXCEPT !.coins = cleared_coins(db) \cup rows,
                   !.txout = (@ \ unconfirmed) \cup {mark(r) : r \in unconfirmed}]

\* the (OutPoint, Coin, ProvedTransaction) read_coins builds from a row
row_coin(r) ==
    [point |-> [txid |-> r.txid, vout |-> r.vout],
     coin |-> [output |-> [script_pubkey |-> r.script, value |-> r.value],
               derivation |-> [account |-> r.account, sub |-> r.sub, kix |-> r.kix,
                               tweak |-> IF r.tweak.some THEN Some(hex_decode(r.tweak.v))
                                                         ELSE NoneV,
                               csv |-> r.csv]],
     proof |-> cbor_from_slice(r.proof)]

\* TX::read_coins: Coins::new, add_confirmed for every row of coins, then
\* process_unconfirmed_transaction for every unconfirmed row of txout
read_coins(db) ==
    LET read == {row_coin(r) : r \in db.coins}
    IN  Ok([confirmed |-> {[point |-> c.point, coin |-> c.coin] : c \in read},
            proofs |-> {c.proof : c \in read},
            unconfirmed |-> {deserialize(r.tx).txid : r \in unconfirmed_rows(db)}])

----------------------------------------------------------------------------
(* SpecCoins: sessions on the coins, txout and processed tables of one     *)
(* store.  Every action is one committed session.  saved remembers the      *)
(* Coins the last store_coins was given since the last rescan.              *)

CoinsPath == config_path("./coins", "Bitcoin")
CoinsDb == fs[CoinsPath].db

Txids == {"tx1", "tx2"}
Blocks == {"b1", "b2"}
Transactions == [txid : Txids]
Fundings == {NoneV, Some([publisher |-> "pk", id |-> "id", term |-> "10"])}

\* KeyDerivation.tweak: Option<Vec<u8>> and KeyDerivation.csv: Option<u16>
Tweaks == {NoneV, Some(<<>>), Some(<<171>>)}
Csvs == {NoneV, Some(144)}

CoinAt(txid, tweak, csv) ==
    [point |-> [txid |-> txid, vout |-> 0],
     coin |-> [output |-> [script_pubkey |-> <<"script", txid>>, value |-> 5000],
               derivation |-> [account |-> 0, sub |-> 0, kix |-> 0,
                               tweak |-> tweak, csv |-> csv]]]

CandidateCoins ==
    {CoinAt("tx1", t, c) : t \in Tweaks, c \in Csvs} \cup {CoinAt("tx2", NoneV, NoneV)}

\* a ProvedTransaction: the transaction and the block that holds it
ProofSets ==
    {P \in SUBSET ([txid : {"tx1"}, block : Blocks] \cup [txid : {"tx2"}, block : {"b1"}]) :
        \A p, q \in P : p.txid = q.txid => p = q}

\* the Coins values stored: a map of outpoints to coins, each with its proof
CoinSets ==
    {[confirmed |-> C, proofs |-> P, unconfirmed |-> {}] :
        C \in {S \in SUBSET CandidateCoins : \A c, d \in S : c.point = d.point => c = d},
        P \in ProofSets} \cap
    {cs \in [confirmed : SUBSET CandidateCoins, proofs : ProofSets, unconfirmed : {{}}] :
        \A c \in cs.confirmed : \E p \in cs.proofs : p.txid = c.point.txid}

InitCoins ==
    /\ fs = [p \in {CoinsPath} |-> [EmptyDir EXCEPT !.dir = TRUE, !.db = create_tables]]
    /\ wallets = 0
    /\ last = NoCall
    /\ tick = 0
    /\ inited = NoneV
    /\ saved = NoneV
    /\ RunIdle

CoinsFrame == UNCHANGED <<wallets, tick, inited>> /\ UNCHANGED runVars

StoreTxout(tx, funding) ==
    /\ fs' = [fs EXCEPT ![CoinsPath].db = store_txout(@, tx, funding)]
    /\ last' = [op |-> "store_txout", ret |-> Ok(Unit)]
    /\ UNCHANGED saved
    /\ CoinsFrame

ReadUnconfirmed ==
    /\ last' = [op |-> "read_unconfirmed", ret |-> Ok(read_unconfirmed(CoinsDb))]
    /\ UNCHANGED <<fs, saved>>
    /\ CoinsFrame

StoreProcessed(block_id) ==
    /\ fs' = [fs EXCEPT ![CoinsPath].db = store_processed(@, block_id)]
    /\ last' = [op |-> "store_processed", ret |-> Ok(Unit)]
    /\ UNCHANGED saved
    /\ CoinsFrame

ReadProcessed ==
    /\ last' = [op |-> "read_processed", ret |-> read_processed(CoinsDb)]
    /\ UNCHANGED <<fs, saved>>
    /\ CoinsFrame

StoreCoins(coins) ==
    /\ fs' = [fs EXCEPT ![CoinsPath].db = store_coins(@, coins)]
    /\ last' = [op |-> "store_coins", ret |-> Ok(Unit)]
    /\ saved' = Some(coins)
    /\ CoinsFrame

ReadCoins ==
    /\ last' = [op |-> "read_coins", ret |-> read_coins(CoinsDb)]
    /\ UNCHANGED <<fs, saved>>
    /\ CoinsFrame

Rescan(after) ==
    /\ fs' = [fs EXCEPT ![CoinsPath] = rescan(@, after)]
    /\ last' = [op |-> "rescan", after |-> after, ret |-> Ok(Unit)]
    /\ saved' = NoneV
    /\ CoinsFrame

NextCoins ==
    \/ \E tx \in Transactions, funding \in Fundings : StoreTxout(tx, funding)
    \/ ReadUnconfirmed
    \/ \E block_id \in Blocks : StoreProcessed(block_id)
    \/ ReadProcessed
    \/ \E coins \in CoinSets : StoreCoins(coins)
    \/ ReadCoins
    \/ \E after \in Blocks : Rescan(after)

SpecCoins == InitCoins /\ [][NextCoins]_vars

\* C15: after rescan(after) in any store state, a store whose processed
\* marker was never written included, the coins table is empty, the txout
\* table is empty and read_processed returns after.
C15_RescanParksMarker ==
    [][last'.op = "rescan" =>
        /\ CoinsDb'.coins = {}
        /\ CoinsDb'.txout = {}
        /\ read_processed(CoinsDb') = Ok(Some(last'.after))]_vars

\* C16: after store_coins(coins) the coins table holds exactly the confirmed
\* coins of coins, the rows of earlier calls being gone; every txout row that
\* was unconfirmed and whose txid has a proof in coins is marked confirmed
\* with the block hash of that proof, and every other txout row is as it was.
C16_StoreCoinsRewrites ==
    [][last'.op = "store_coins" =>
        LET coins == saved'.v
            before == CoinsDb.txout
            after == CoinsDb'.txout
            rows == CoinsDb'.coins
        IN  /\ {[txid |-> r.txid, vout |-> r.vout] : r \in rows}
                 = {c.point : c \in coins.confirmed}
            /\ Cardinality(rows) = Cardinality(coins.confirmed)
            /\ \A r \in rows : \E c \in coins.confirmed :
                 /\ c.point = [txid |-> r.txid, vout |-> r.vout]
                 /\ r.value = c.coin.output.value
                 /\ r.script = c.coin.output.script_pubkey
                 /\ <<r.account, r.sub, r.kix>>
                      = <<c.coin.derivation.account, c.coin.derivation.sub,
                          c.coin.derivation.kix>>
                 /\ \E p \in coins.proofs : p.txid = r.txid /\ r.proof = cbor_to_vec(p)
            /\ {r.txid : r \in after} = {r.txid : r \in before}
            /\ Cardinality(after) = Cardinality(before)
            /\ \A r \in before :
                 IF ~r.confirmed.some /\ \E p \in coins.proofs : p.txid = r.txid
                 THEN \E p \in coins.proofs :
                        /\ p.txid = r.txid
                        /\ [r EXCEPT !.confirmed = Some(p.block)] \in after
                 ELSE r \in after]_vars

\* a store_coins that left one proven row marked with its block, one
\* unproven row unconfirmed, and a coins table of one confirmed coin
C16_Witness ==
    /\ last.op = "store_coins"
    /\ Cardinality(CoinsDb.coins) = 1
    /\ \E r \in CoinsDb.txout : r.txid = "tx1" /\ r.confirmed = Some("b2")
    /\ \E r \in CoinsDb.txout : r.txid = "tx2" /\ ~r.confirmed.some

\* C17: for a coin set in which every confirmed coin has a proof, store_coins
\* followed by read_coins, no unconfirmed txout row being present, yields the
\* same confirmed coins: outpoints, values, scripts, proofs and derivations,
\* every optional tweak and optional csv included.
C17_CoinsRoundTrip ==
    [][(last'.op = "store_coins" /\ \A r \in CoinsDb'.txout : r.confirmed.some) =>
        LET coins == saved'.v
            back == read_coins(CoinsDb').v
        IN  /\ back.confirmed = coins.confirmed
            /\ back.proofs = {p \in coins.proofs :
                                \E c \in coins.confirmed : c.point.txid = p.txid}]_vars

\* C18: read_coins returns the stored confirmed coins with every txout row
\* whose confirmed field is null replayed as an unconfirmed transaction, and
\* replays no txout row that is marked confirmed.
C18_ReplaysOnlyUnconfirmed ==
    [][last'.op = "read_coins" =>
        LET coins == last'.ret.v
        IN  /\ last'.ret.ok
            /\ {c.point : c \in coins.confirmed}
                 = {[txid |-> r.txid, vout |-> r.vout] : r \in CoinsDb.coins}
            /\ \A r \in CoinsDb.txout :
                 (r.txid \in coins.unconfirmed) <=> (r.confirmed = NoneV)
            /\ coins.unconfirmed \subseteq {r.txid : r \in CoinsDb.txout}]_vars

\* a read_coins over a confirmed coin, a confirmed txout row and an
\* unconfirmed one
C18_Witness ==
    /\ last.op = "read_coins"
    /\ last.ret.v.confirmed # {}
    /\ last.ret.v.unconfirmed = {"tx2"}
    /\ \E r \in CoinsDb.txout : r.txid = "tx1" /\ r.confirmed.some

----------------------------------------------------------------------------
(* The account table                                                       *)

\* AccountAddressType::as_u32 and ::from_u32: the number kept for an
\* address type, and the address type of a number
as_u32(t) == <<"u32", t>>
from_u32(n) == n[2]

\* ExtendedPubKey to_string / from_str
xpub_to_string(k) == <<"base58", k>>
xpub_from_str(s) == s[2]

\* the account table store_master starts from, were it to keep the old rows
cleared_account_m(db) == db.account

\* delete from account
cleared_account(db) == {}

\* TX::store_account: insert or replace on the key (account, sub)
store_account(db, account) ==
    [db |-> [db EXCEPT !.account =
                {r \in @ : <<r.account, r.sub>>
                             # <<account.account_number, account.sub_account_number>>}
                \cup {[account |-> account.account_number,
                       address_type |-> as_u32(account.address_type),
                       sub |-> account.sub_account_number,
                       master |-> xpub_to_string(account.master_public),
                       instantiated |-> cbor_to_vec(account.instantiated)]}],
     ret |-> Ok(1)]

\* store_account for every account of a set, in any order: the keys differ
RECURSIVE store_accounts(_, _)
store_accounts(db, accounts) ==
    IF accounts = {} THEN db
    ELSE LET account == CHOOSE a \in accounts : TRUE
         IN  store_accounts(store_account(db, account).db, accounts \ {account})

\* TX::store_master
store_master(db, master) ==
    [db |-> store_accounts([db EXCEPT !.account = cleared_account(db)], master.accounts),
     ret |-> Ok(Cardinality(master.accounts))]

\* TX::read_account: query_row fails when no row has the key
read_account(db, account_number, sub, network, look_ahead) ==
    LET rows == {r \in db.account : r.account = account_number /\ r.sub = sub}
    IN  IF rows = {} THEN Err("QueryReturnedNoRows")
        ELSE LET r == CHOOSE x \in rows : TRUE
             IN  Ok([address_type |-> from_u32(r.address_type),
                     account_number |-> account_number,
                     sub_account_number |-> sub,
                     master_public |-> xpub_from_str(r.master),
                     instantiated |-> cbor_from_slice(r.instantiated),
                     next |-> 0,
                     look_ahead |-> look_ahead,
                     network |-> network])

----------------------------------------------------------------------------
(* SpecAccounts: sessions on the account table of one store.  saved         *)
(* remembers the master the last store_master was given while no            *)
(* store_account followed it.                                               *)

AccountsPath == config_path("./accounts", "Bitcoin")
AccountsDb == fs[AccountsPath].db

MasterKeys == {"xpubA", "xpubB"}
AccountKeys == {<<0, 0>>, <<1, 0>>}
\* the pairs read_account is asked for: one of them is never stored
ReadKeys == AccountKeys \cup {<<1, 1>>}
AddressTypes == {"P2SHWPKH", "P2WPKH"}
InstantiatedKeys == {<<>>, <<"pk0">>}

AccountOf(k, t, m, i) ==
    [account_number |-> k[1], sub_account_number |-> k[2], address_type |-> t,
     master_public |-> m, instantiated |-> i]

Accounts ==
    {AccountOf(k, t, m, i) :
        k \in AccountKeys, t \in AddressTypes, m \in MasterKeys, i \in InstantiatedKeys}

\* a MasterAccount: its accounts are keyed by (account, sub) and derive from
\* its master public key
Masters ==
    UNION {{[master_public |-> m,
             accounts |-> {AccountOf(k, f[k][1], m, f[k][2]) : k \in K}] :
               f \in [K -> AddressTypes \X InstantiatedKeys]} :
           m \in MasterKeys, K \in SUBSET AccountKeys}

InitAccounts ==
    /\ fs = [p \in {AccountsPath} |-> [EmptyDir EXCEPT !.dir = TRUE, !.db = create_tables]]
    /\ wallets = 0
    /\ last = NoCall
    /\ tick = 0
    /\ inited = NoneV
    /\ saved = NoneV
    /\ RunIdle

StoreMaster(master) ==
    LET r == store_master(AccountsDb, master)
    IN  /\ fs' = [fs EXCEPT ![AccountsPath].db = r.db]
        /\ last' = [op |-> "store_master", deleted |-> Cardinality(AccountsDb.account),
                    ret |-> r.ret]
        /\ saved' = Some(master)
        /\ CoinsFrame

StoreAccount(account) ==
    LET r == store_account(AccountsDb, account)
    IN  /\ fs' = [fs EXCEPT ![AccountsPath].db = r.db]
        /\ last' = [op |-> "store_account", ret |-> r.ret]
        /\ saved' = NoneV
        /\ CoinsFrame

ReadAccount(account_number, sub, network, look_ahead) ==
    /\ last' = [op |-> "read_account",
                ret |-> read_account(AccountsDb, account_number, sub, network, look_ahead)]
    /\ UNCHANGED <<fs, saved>>
    /\ CoinsFrame

NextAccounts ==
    \/ \E master \in Masters : StoreMaster(master)
    \/ \E account \in Accounts : StoreAccount(account)
    \/ \E k \in ReadKeys : ReadAccount(k[1], k[2], "bitcoin", KEY_LOOK_AHEAD)

SpecAccounts == InitAccounts /\ [][NextAccounts]_vars

\* C20: after store_master(master) the account table holds exactly one row
\* per (account, sub) of master and no row of an earlier master; read_account
\* then succeeds for each of these pairs with the stored address type,
\* extended public key and instantiated keys, and fails with an error for
\* every pair not in master.
C20_StoreMasterReplaces ==
    [][last'.op = "store_master" =>
        LET master == saved'.v
            rows == AccountsDb'.account
            in_master(k) == {a \in master.accounts :
                               <<a.account_number, a.sub_account_number>> = k}
        IN  /\ {<<r.account, r.sub>> : r \in rows}
                 = {<<a.account_number, a.sub_account_number>> : a \in master.accounts}
            /\ Cardinality(rows) = Cardinality(master.accounts)
            /\ \A r \in rows : xpub_from_str(r.master) = master.master_public
            /\ \A k \in ReadKeys :
                 LET read == read_account(AccountsDb', k[1], k[2], "bitcoin", KEY_LOOK_AHEAD)
                 IN  IF in_master(k) = {} THEN ~read.ok
                     ELSE /\ read.ok
                          /\ \E a \in in_master(k) :
                               /\ read.v.address_type = a.address_type
                               /\ read.v.master_public = a.master_public
                               /\ read.v.instantiated = a.instantiated
                               /\ read.v.account_number = a.account_number
                               /\ read.v.sub_account_number = a.sub_account_number]_vars

\* a store_master of one account over a table that held two rows
C20_Witness ==
    /\ last.op = "store_master"
    /\ last.deleted = 2
    /\ last.ret = Ok(1)
    /\ Cardinality(AccountsDb.account) = 1

\* C27: the processed marker is a single slot: read_processed returns none
\* until the first store_processed, and after any sequence of store_processed
\* calls it returns the hash passed to the last one, never an earlier one.
C27_ProcessedIsLastStored ==
    /\ [][last'.op = "store_processed" =>
            \A block_id \in Blocks :
                StoreProcessed(block_id) => read_processed(CoinsDb') = Ok(Some(block_id))]_vars
    /\ [][(read_processed(CoinsDb) = Ok(NoneV) /\ last'.op # "store_processed")
            => read_processed(CoinsDb') = Ok(NoneV)]_vars
    /\ [][read_processed(CoinsDb') # read_processed(CoinsDb)
            => last'.op \in {"store_processed", "rescan"}]_vars

\* a read_processed that returns the marker a store_processed wrote
C27_Witness ==
    /\ last.op = "read_processed"
    /\ last.ret = Ok(Some("b2"))

\* C28: in every reachable state of the address book each (network, slot)
\* pair holds at most one row, so a network never has more than
\* ADDRESS_SLOTS rows, and every stored row sits in the slot that the stored
\* seed assigns to its address.
C28_OneRowPerSlot ==
    /\ \A r, q \in Book.address :
         (r.network = q.network /\ r.slot = q.slot) => r = q
    /\ \A network \in BookNetworks :
         Cardinality({r \in Book.address : r.network = network}) <= ADDRESS_SLOTS
    /\ \A r \in Book.address :
         /\ r.slot \in 0..(ADDRESS_SLOTS - 1)
         /\ Book.seed.some
         /\ r.slot = slot_of(Book.seed.v, r.network, SocketAddr_from_str(r.ip))

\* two addresses were stored into one slot, 127.0.0.1:18333 with a ban and
\* 127.0.0.1:8080, and the slot holds the second
C28_Witness ==
    /\ saved > 0
    /\ \E r \in Book.address : r.ip = SocketAddr_to_string(Peer3)
    /\ Cardinality(Book.address) = 1

----------------------------------------------------------------------------
(* SpecRescan: a wallet directory whose header chain and store were filled  *)
(* by earlier runs, and then start with or without rescan.                  *)

RescanPath == config_path(GoodDir, RunNetwork)

\* config.birth: before every header, and between the headers
Births == {1200000000, 1577836800}

\* trunk headers after genesis; their times are not ascending
Headers ==
    {[hash |-> "h1", time |-> 1577836000],
     [hash |-> "h2", time |-> 1577837000],
     [hash |-> "h3", time |-> 1577836500]}

MaxTrunk == 3

InitRescan ==
    /\ \E birth \in Births :
         fs = [p \in {RescanPath} |->
                 init_config(EmptyDir, 1, RunNetwork, "hunter2", NoneV, birth, "ok").d]
    /\ wallets = 1
    /\ last = NoCall
    /\ tick = 0
    /\ inited = NoneV
    /\ saved = NoneV
    /\ slot = NoneV
    /\ poisoned = FALSE
    /\ stores = <<>>
    /\ supervisors = <<>>
    /\ pc = [t \in Threads |-> "idle"]
    /\ call = [t \in Threads |-> NoCall]
    /\ handle = [t \in Threads |-> 0]
    /\ ret = [t \in Threads |-> Idle]

\* header sync of an earlier run: the trunk grows by one header
ExtendTrunk(header) ==
    LET d == chain_init(fs[RescanPath])
    IN  /\ \A t \in Threads : pc[t] = "idle"
        /\ ~slot.some
        /\ Len(d.chain.trunk) < MaxTrunk
        /\ \A i \in 1..Len(d.chain.trunk) : d.chain.trunk[i] # header
        /\ fs' = [fs EXCEPT ![RescanPath] = [d EXCEPT !.chain.trunk = Append(@, header)]]
        /\ UNCHANGED <<wallets, last, tick, inited, saved>>
        /\ UNCHANGED runVars

\* block processing of an earlier run, in one committed session: a
\* transaction broadcast and not confirmed, a coin confirmed in the trunk
\* block at height i, and the processed marker at that block
Sync(i) ==
    LET d == fs[RescanPath]
        block == d.chain.trunk[i].hash
        coins == [confirmed |-> {CoinAt("tx1", NoneV, NoneV)},
                  proofs |-> {[txid |-> "tx1", block |-> block]},
                  unconfirmed |-> {}]
    IN  /\ \A t \in Threads : pc[t] = "idle"
        /\ ~slot.some
        /\ d.chain.exists
        /\ i \in 1..Len(d.chain.trunk)
        /\ fs' = [fs EXCEPT ![RescanPath].db =
                    store_processed(store_coins(store_txout(@, [txid |-> "tx2"], NoneV),
                                                coins), block)]
        /\ UNCHANGED <<wallets, last, tick, inited, saved>>
        /\ UNCHANGED runVars

NextRescan ==
    \/ \E header \in Headers : ExtendTrunk(header)
    \/ \E i \in 1..MaxTrunk : Sync(i)
    \/ \E r \in BOOLEAN : StartLocked("t1", GoodDir, r)

SpecRescan == InitRescan /\ [][NextRescan]_vars

\* the trunk headers whose time is earlier than the wallet's birth
OlderThanBirth(d) ==
    {i \in 1..Len(d.chain.trunk) : d.chain.trunk[i].time < load(d).v.birth}

\* C26: start with rescan = true parks the processed marker at the trunk
\* header nearest the tip whose time is earlier than the wallet's birth and
\* clears coins and txout, so the marker is on the current trunk; when no
\* trunk header is earlier than birth, the store and the in-memory wallet
\* are left unchanged.
C26_RescanParksAtBirth ==
    [][(StartLocked("t1", GoodDir, TRUE) /\ pc'["t1"] = "p2p_start") =>
        LET d == chain_init(fs[RescanPath])
            db == fs'[RescanPath].db
            older == OlderThanBirth(d)
        IN  IF older = {}
            THEN /\ db = fs[RescanPath].db
                 /\ stores'[slot'.v].coins = fs[RescanPath].db.coins
            ELSE /\ \E i \in older :
                      /\ \A j \in older : j <= i
                      /\ db.processed = Some(d.chain.trunk[i].hash)
                 /\ db.coins = {}
                 /\ db.txout = {}
                 /\ stores'[slot'.v].coins = {}]_vars

\* C29: every start call that returns Ok either installed the shared store
\* itself or found a store installed by another start call when it inspected
\* the slot: start never returns Ok when no store was installed.
C29_StartOkMeansStore ==
    [][\A t \in Threads :
          (/\ call'[t].op = "start"
           /\ pc'[t] = "idle"
           /\ ret'[t].v = "Ok"
           /\ <<pc[t], call[t], ret[t]>> # <<pc'[t], call'[t], ret'[t]>>)
          => \/ pc[t] = "cleanup" /\ handle[t] # 0
             \/ pc[t] = "idle" /\ slot.some]_vars

----------------------------------------------------------------------------
(* SpecLocks: SpecRun with callers of withdraw                              *)

\* withdraw: with the guard of store.write() held the builder selects coins;
\* the wallet of a directory fresh from init_config holds none, so the
\* builder fails; drop the guard, return Err(e)
WithdrawWrite(t) ==
    /\ pc[t] = "withdraw_locked"
    /\ stores[handle[t]].coins = {}
    /\ handle' = [handle EXCEPT ![t] = 0]
    /\ stores' = Arc_drop([stores EXCEPT ![handle[t]].writer = "none"], handle', slot)
    /\ Finish(t, "Err", "InsufficientFunds")
    /\ UNCHANGED <<fs, otherCfg, slot, poisoned, supervisors, call>>

NextLocks ==
    \/ NextRun
    \/ \E t \in Threads : GetStore(t, "withdraw")
    \/ \E t \in Threads : WithdrawWrite(t)

SpecLocks == InitRun /\ [][NextLocks]_vars

\* the callers inside a shared section of store s, and inside an exclusive one
ReadHolders(s) ==
    {t \in Threads : handle[t] = s /\ pc[t] \in {"balance_locked", "poll_read"}}
WriteHolders(s) ==
    {t \in Threads : handle[t] = s
        /\ pc[t] \in {"stop_locked", "deposit_addr_locked", "withdraw_locked"}}

\* C22: balance() accesses the shared store only under a shared lock and
\* deposit_address(), withdraw() and stop() only under an exclusive lock:
\* no mutation of the store overlaps another mutation or a balance() read.
C22_ReadersWriterExclusion ==
    /\ [](\A s \in 1..Len(stores) :
            /\ Cardinality(WriteHolders(s)) <= 1
            /\ WriteHolders(s) # {} => ReadHolders(s) = {}
            /\ \A t \in WriteHolders(s) : stores[s].writer = t
            /\ \A t \in ReadHolders(s) : t \in stores[s].readers)
    /\ [][\A s \in 1..Len(stores) :
            (/\ stores'[s] # Freed
             /\ <<stores'[s].kix, stores'[s].stopped>> # <<stores[s].kix, stores[s].stopped>>)
            => /\ Cardinality(WriteHolders(s)) = 1
               /\ ReadHolders(s) = {}]_vars

\* two balance() calls hold the store at the same time
C22_Witness ==
    \E t, u \in Threads :
        /\ t # u
        /\ handle[t] = handle[u]
        /\ pc[t] = "balance_locked" /\ pc[u] = "balance_locked"

----------------------------------------------------------------------------
(* SpecSession: the commands that open sessions on one store.  The file of  *)
(* the store holds what was committed; inited holds the uncommitted view of *)
(* the open session; last holds the running command, its position, the      *)
(* store it started from and the number of its commits that changed the     *)
(* store.                                                                   *)

SessionPath == config_path("./session", "Bitcoin")
SessionDb == fs[SessionPath].db

\* Connection::open on a path without a file: no table exists yet
FreshDb == [create_tables EXCEPT !.exists = FALSE]

\* Wallet::new: no coins, and the accounts of the master key m
NewCoins == [confirmed |-> {}, proofs |-> {}, unconfirmed |-> {}]
NewMaster(m) ==
    [master_public |-> m,
     accounts |-> {AccountOf(k, "P2WPKH", m, <<>>) : k \in AccountKeys}]

\* the session calls a command makes, in order
Program(op) ==
    CASE op = "init" ->                 \* db::init
            <<"transaction", "create_tables", "commit",
              "transaction", "store_coins", "store_master", "commit">>
      [] op = "rescan" ->               \* start, rescan = true
            <<"transaction", "rescan", "commit">>
      [] op = "load_wallet" ->          \* start: the session is dropped
            <<"transaction", "read_account", "read_coins", "drop">>
      [] op = "processed" ->            \* a session the caller gives up
            <<"transaction", "store_processed", "rollback">>

Commands ==
    [op : {"init"}, arg : MasterKeys] \cup [op : {"rescan", "processed"}, arg : Blocks]
    \cup [op : {"load_wallet"}, arg : {"none"}]

\* what a call does to the view of the open session
Apply(instr, arg, w) ==
    CASE instr = "create_tables" -> IF w.exists THEN w ELSE create_tables
      [] instr = "store_coins" -> store_coins(w, NewCoins)
      [] instr = "store_master" -> store_master(w, NewMaster(arg)).db
      [] instr = "rescan" -> rescan([db |-> w], arg).db
      [] instr = "store_processed" -> store_processed(w, arg)
      [] OTHER -> w

InitSession ==
    /\ fs = [p \in {SessionPath} |-> [EmptyDir EXCEPT !.dir = TRUE, !.db = FreshDb]]
    /\ wallets = 0
    /\ last = [op |-> "none", arg |-> "none", pc |-> 0, before |-> FreshDb,
               state |-> "returned", commits |-> 0]
    /\ tick = 0
    /\ inited = NoneV
    /\ saved = NoneV
    /\ RunIdle

SessionFrame == UNCHANGED <<wallets, tick, saved>> /\ UNCHANGED runVars

\* a command is called while no other runs: the store is behind a mutex
Command(cmd) ==
    /\ last.state # "running"
    /\ last' = [op |-> cmd.op, arg |-> cmd.arg, pc |-> 1, before |-> SessionDb,
                state |-> "running", commits |-> 0]
    /\ UNCHANGED <<fs, inited>>
    /\ SessionFrame

Advance ==
    IF last.pc = Len(Program(last.op))
    THEN [last EXCEPT !.state = "returned"]
    ELSE [last EXCEPT !.pc = @ + 1]

\* DB::transaction
Transaction ==
    /\ last.state = "running"
    /\ Program(last.op)[last.pc] = "transaction"
    /\ ~inited.some
    /\ inited' = Some(SessionDb)
    /\ last' = Advance
    /\ UNCHANGED fs
    /\ SessionFrame

\* a call of TX inside the session; it needs the tables
Call ==
    LET instr == Program(last.op)[last.pc]
    IN  /\ last.state = "running"
        /\ instr \notin {"transaction", "commit", "rollback", "drop"}
        /\ inited.some
        /\ instr # "create_tables" => inited.v.exists
        /\ inited' = Some(Apply(instr, last.arg, inited.v))
        /\ last' = Advance
        /\ UNCHANGED fs
        /\ SessionFrame

\* the store a commit leaves
committed(db, w) == w

\* TX::commit
Commit ==
    /\ last.state = "running"
    /\ Program(last.op)[last.pc] = "commit"
    /\ inited.some
    /\ fs' = [fs EXCEPT ![SessionPath].db = committed(@, inited.v)]
    /\ inited' = NoneV
    /\ last' = [Advance EXCEPT !.commits = IF inited.v = SessionDb THEN @ ELSE @ + 1]
    /\ SessionFrame

\* TX::rollback, or the session going out of scope
Rollback ==
    /\ last.state = "running"
    /\ Program(last.op)[last.pc] \in {"rollback", "drop"}
    /\ inited.some
    /\ inited' = NoneV
    /\ last' = Advance
    /\ UNCHANGED fs
    /\ SessionFrame

\* a call returns an error and the command panics on expect, or the process
\* dies: the session, if one is open, is dropped
Fail ==
    /\ last.state = "running"
    /\ last.pc > 1
    /\ inited' = NoneV
    /\ last' = [last EXCEPT !.state = "aborted"]
    /\ UNCHANGED fs
    /\ SessionFrame

NextSession ==
    \/ \E cmd \in Commands : Command(cmd)
    \/ Transaction
    \/ Call
    \/ Commit
    \/ Rollback
    \/ Fail

SpecSession == InitSession /\ [][NextSession]_vars

\* C21: every store operation either commits all of its writes or leaves
\* the store untouched: a session that ends by rollback, by an error or by
\* being dropped leaves every table as it was before the session began, and
\* each command (init, rescan at start) changes the store through a single
\* committed session, so a command that fails leaves the store as it found
\* it.
C21_SingleCommittedSession ==
    /\ [][(inited.some /\ Program(last.op)[last.pc] # "commit") => fs' = fs]_vars
    /\ [][(inited.some /\ last'.state = "aborted") => fs' = fs]_vars
    /\ [](last.commits <= 1)
    /\ [](last.state = "aborted" => SessionDb = last.before)

----------------------------------------------------------------------------
(* SpecInitRace: two threads calling init_config on one empty work          *)
(* directory and network.  init_config takes no lock: between its test of   *)
(* the config file, Wallet::new, db::init and config::save the other        *)
(* caller may run.                                                          *)

InitCallers == {"t1", "t2"}
RacePath == config_path(GoodDir, RunNetwork)

InitRace ==
    /\ fs = [p \in {RacePath} |-> EmptyDir]
    /\ wallets = 0
    /\ last = NoCall
    /\ tick = 0
    /\ inited = NoneV
    /\ saved = NoneV
    /\ slot = NoneV
    /\ poisoned = FALSE
    /\ stores = <<>>
    /\ supervisors = <<>>
    /\ pc = [t \in Threads |-> "idle"]
    /\ call = [t \in Threads |-> NoCall]
    /\ handle = [t \in Threads |-> 0]
    /\ ret = [t \in Threads |-> Idle]

RaceFrame == UNCHANGED <<last, tick, inited, saved, slot, poisoned, stores, supervisors, handle>>

\* init_config: create_dir_all, then the test config::load(..).is_ok()
InitLoad(t, passphrase, pd_passphrase) ==
    LET d0 == [fs[RacePath] EXCEPT !.dir = TRUE]
    IN  /\ pc[t] = "idle"
        /\ ret[t] = Idle
        /\ fs' = [fs EXCEPT ![RacePath] = d0]
        /\ call' = [call EXCEPT ![t] = [op |-> "init_config", passphrase |-> passphrase,
                                        pd_passphrase |-> pd_passphrase]]
        /\ IF config_loads(d0)
           THEN Finish(t, "Ok", "none")
           ELSE pc' = [pc EXCEPT ![t] = "wallet_new"] /\ UNCHANGED ret
        /\ UNCHANGED wallets
        /\ RaceFrame

\* Wallet::new(network, passphrase, pd_passphrase) on fresh entropy
InitWallet(t, now) ==
    /\ pc[t] = "wallet_new"
    /\ wallets < MaxWallets
    /\ wallets' = wallets + 1
    /\ call' = [call EXCEPT ![t] =
                  [op |-> "init_config",
                   wallet |-> Wallet_new(wallets + 1, RunNetwork, call[t].passphrase,
                                         call[t].pd_passphrase, now)]]
    /\ pc' = [pc EXCEPT ![t] = "db_init"]
    /\ UNCHANGED <<fs, ret>>
    /\ RaceFrame

\* db::init(&config_path, &wallet.coins, &wallet.master)
InitDb(t) ==
    /\ pc[t] = "db_init"
    /\ fs' = [fs EXCEPT ![RacePath] = db_init(@, call[t].wallet)]
    /\ pc' = [pc EXCEPT ![t] = "save"]
    /\ UNCHANGED <<wallets, call, ret>>
    /\ RaceFrame

\* Config::new, config::save, Ok(InitResult)
InitSave(t) ==
    LET wallet == call[t].wallet
        config == Config_new(hex_encode(wallet.encrypted), wallet.master_public,
                             KEY_LOOK_AHEAD, wallet.birth, RunNetwork)
        s == save(fs[RacePath], config, "ok")
    IN  /\ pc[t] = "save"
        /\ fs' = [fs EXCEPT ![RacePath] = s.d]
        /\ Finish(t, "Ok", "mnemonic")
        /\ UNCHANGED <<wallets, call>>
        /\ RaceFrame

NextInitRace ==
    \/ \E t \in InitCallers, passphrase \in Passphrases, pd_passphrase \in PdPassphrases :
         InitLoad(t, passphrase, pd_passphrase)
    \/ \E t \in InitCallers, now \in Times : InitWallet(t, now)
    \/ \E t \in InitCallers : InitDb(t)
    \/ \E t \in InitCallers : InitSave(t)

SpecInitRace == InitRace /\ [][NextInitRace]_vars

\* C30: after any interleaving of two concurrent init_config calls on the
\* same empty work directory and network, the keyroot and encryptedwalletkey
\* of the saved config belong to the same wallet as the master account
\* stored in the database.
C30_ConfigMatchesDatabase ==
    (\A t \in InitCallers : pc[t] = "idle" /\ ret[t] # Idle) =>
        LET d == fs[RacePath]
            config == load(d)
        IN  /\ config.ok
            /\ \E t \in InitCallers :
                 /\ ret[t].why = "mnemonic"
                 /\ config.v.keyroot = call[t].wallet.master_public
                 /\ config.v.encryptedwalletkey = hex_encode(call[t].wallet.encrypted)
                 /\ d.db.account # {}
                 /\ \A r \in d.db.account : r.master = call[t].wallet.master_public

----------------------------------------------------------------------------
(* SpecWithdraw: the transaction builder behind withdraw.  saved holds the  *)
(* coins available to spend.                                                *)

\* the coins a wallet may hold: an id and a value in satoshi
CoinPool ==
    {[id |-> 1, value |-> 100000], [id |-> 2, value |-> 40000],
     [id |-> 3, value |-> 40000], [id |-> 4, value |-> 1200]}

Amounts == {NoneV, Some(10000), Some(39000), Some(100000), Some(139000)}
FeeRates == {1, 5, 10}

RECURSIVE SumValues(_)
SumValues(S) ==
    IF S = {} THEN 0
    ELSE LET c == CHOOSE x \in S : TRUE IN c.value + SumValues(S \ {c})

\* the virtual size of a transaction spending n_inputs witness coins
estimated_vbytes(n_inputs, n_outputs) == 11 + 68 * n_inputs + 31 * n_outputs

\* the most valuable coin, the lower id first among equals
Largest(S) ==
    CHOOSE c \in S : \A x \in S : x.value < c.value \/ (x.value = c.value /\ c.id <= x.id)

\* coin selection for a given amount: accumulate in decreasing-value order
\* until the sum covers the amount and the fee estimated for the inputs so
\* far and two outputs
RECURSIVE select(_, _, _, _)
select(available, chosen, amount, fee_per_vbyte) ==
    IF chosen # {} /\ SumValues(chosen) >=
           amount + fee_per_vbyte * estimated_vbytes(Cardinality(chosen), 2)
    THEN Ok(chosen)
    ELSE IF available = {} THEN Err("InsufficientFunds")
    ELSE LET c == Largest(available)
         IN  select(available \ {c}, chosen \cup {c}, amount, fee_per_vbyte)

\* the change output of a targeted withdrawal
change_of(sum, amount, fee) == sum - amount - fee

\* the builder: (tx, actual_fee), or an error
build(available, fee_per_vbyte, amount) ==
    IF amount.some
    THEN LET s == select(available, {}, amount.v, fee_per_vbyte)
         IN  IF ~s.ok THEN s
             ELSE LET fee == fee_per_vbyte * estimated_vbytes(Cardinality(s.v), 2)
                      sum == SumValues(s.v)
                  IN  Ok([tx |-> [txid |-> <<"txid", {c.id : c \in s.v}>>, inputs |-> s.v,
                                  recipient |-> amount.v,
                                  change |-> Some(change_of(sum, amount.v, fee))],
                          fee |-> fee])
    ELSE LET fee == fee_per_vbyte * estimated_vbytes(Cardinality(available), 1)
             sum == SumValues(available)
         IN  IF available = {} \/ sum <= fee THEN Err("InsufficientFunds")
             ELSE Ok([tx |-> [txid |-> <<"txid", {c.id : c \in available}>>,
                              inputs |-> available,
                              recipient |-> sum - fee, change |-> NoneV],
                      fee |-> fee])

\* a withdraw that reports no fee
WithdrawTx_new_m(txid, fee) == [txid |-> txid, fee |-> 0]

\* WithdrawTx::new
WithdrawTx_new(txid, fee) == [txid |-> txid, fee |-> fee]

\* api::withdraw: Ok((t, f)) => Ok(WithdrawTx::new(t.txid(), f)), Err(e) => Err(e)
withdraw(available, fee_per_vbyte, amount) ==
    LET w == build(available, fee_per_vbyte, amount)
    IN  IF w.ok THEN Ok(WithdrawTx_new(w.v.tx.txid, w.v.fee)) ELSE w

InitWithdraw ==
    /\ fs = <<>>
    /\ wallets = 0
    /\ last = NoCall
    /\ tick = 0
    /\ inited = NoneV
    /\ saved \in (SUBSET CoinPool) \ {{}}
    /\ RunIdle

\* withdraw(passphrase, address, fee_per_vbyte, amount): the coins spent are
\* no longer available, and the change is not until it is confirmed
Withdraw(fee_per_vbyte, amount) ==
    LET w == build(saved, fee_per_vbyte, amount)
    IN  /\ last' = [op |-> "withdraw", fee_per_vbyte |-> fee_per_vbyte, amount |-> amount,
                    tx |-> IF w.ok THEN Some(w.v.tx) ELSE NoneV,
                    ret |-> withdraw(saved, fee_per_vbyte, amount)]
        /\ saved' = IF w.ok THEN saved \ w.v.tx.inputs ELSE saved
        /\ UNCHANGED <<fs, wallets, tick, inited>>
        /\ UNCHANGED runVars

NextWithdraw == \E fee_per_vbyte \in FeeRates, amount \in Amounts : Withdraw(fee_per_vbyte, amount)

SpecWithdraw == InitWithdraw /\ [][NextWithdraw]_vars

----------------------------------------------------------------------------
(* SpecPipeline: the filtered block-download pipeline between the header    *)
(* chain and the coin set.  fs is the header chain (the known headers, the  *)
(* trunk, a reorganisation not yet processed), inited the pipeline (blocks  *)
(* requested, blocks buffered), saved the coin set (the journal of applied  *)
(* blocks, the confirmed coins, the processed marker).  tick turns 1 when a *)
(* block arrives ahead of an earlier one.                                   *)

\* the headers peers may announce: a chain a1 a2 a3 and a fork b2 b3 b4 of it
BlockHashes == {"a1", "a2", "a3", "b2", "b3", "b4"}

Prev(b) ==
    CASE b = "a1" -> "genesis"
      [] b = "a2" -> "a1"
      [] b = "a3" -> "a2"
      [] b = "b2" -> "a1"
      [] b = "b3" -> "b2"
      [] b = "b4" -> "b3"

\* the chain from genesis to b, genesis left out
RECURSIVE ChainTo(_)
ChainTo(b) == IF b = "genesis" THEN <<>> ELSE Append(ChainTo(Prev(b)), b)

Range(seq) == {seq[i] : i \in 1..Len(seq)}

\* the length of the longest common prefix
CommonPrefix(s, t) ==
    LET same == {n \in 0..Min(Len(s), Len(t)) : \A i \in 1..n : s[i] = t[i]}
    IN  CHOOSE n \in same : \A m \in same : m <= n

\* the blocks with a transaction of the wallet, and the coin each confirms
WalletBlocks == {"a2", "a3", "b3"}
ConfirmedIn(b) == IF b \in WalletBlocks THEN {[outpoint |-> <<b, 0>>, block |-> b]} ELSE {}

\* the window of block requests in flight
MaxInFlight == 2

InitPipeline ==
    /\ fs = [headers |-> {}, trunk |-> <<>>, pending |-> NoneV]
    /\ inited = [inflight |-> {}, buffer |-> {}]
    /\ saved = [applied |-> <<>>, coins |-> {}, processed |-> NoneV]
    /\ wallets = 0
    /\ last = NoCall
    /\ tick = 0
    /\ RunIdle

PipelineFrame == UNCHANGED wallets /\ UNCHANGED runVars

\* header sync: a header on a known predecessor; the trunk moves to the
\* chain of more work, the earlier-seen chain winning a tie, and a trunk
\* that is not extended but replaced is reported as a reorganisation
AcceptHeader(h) ==
    LET chain == ChainTo(h)
        fork_point == CommonPrefix(fs.trunk, chain)
        reorg == fork_point < Len(fs.trunk)
    IN  /\ h \notin fs.headers
        /\ Prev(h) \in fs.headers \cup {"genesis"}
        /\ fs' = IF Len(chain) > Len(fs.trunk)
                 THEN [headers |-> fs.headers \cup {h}, trunk |-> chain,
                       pending |-> IF ~reorg THEN fs.pending
                                   ELSE IF fs.pending.some
                                        THEN Some(Min(fs.pending.v, fork_point))
                                        ELSE Some(fork_point)]
                 ELSE [fs EXCEPT !.headers = @ \cup {h}]
        /\ last' = [op |-> "header"]
        /\ UNCHANGED <<inited, saved, tick>>
        /\ PipelineFrame

\* a request for the next trunk block not yet applied, buffered or requested
Request(b) ==
    LET wanted == {fs.trunk[i] : i \in (Len(saved.applied) + 1)..Len(fs.trunk)}
                    \ (inited.inflight \cup inited.buffer)
    IN  /\ ~fs.pending.some
        /\ Cardinality(inited.inflight) < MaxInFlight
        /\ b \in wanted
        /\ inited' = [inited EXCEPT !.inflight = @ \cup {b}]
        /\ last' = [op |-> "request"]
        /\ UNCHANGED <<fs, saved, tick>>
        /\ PipelineFrame

\* a peer answers a request, in any order: the block is buffered
Arrive(b) ==
    /\ b \in inited.inflight
    /\ inited' = [inflight |-> inited.inflight \ {b}, buffer |-> inited.buffer \cup {b}]
    /\ tick' = IF Len(ChainTo(b)) > Len(saved.applied) + 1 THEN 1 ELSE tick
    /\ last' = [op |-> "arrive"]
    /\ UNCHANGED <<fs, saved>>
    /\ PipelineFrame

\* the buffered blocks the pipeline may hand to the coin set, were it to
\* take any of them
deliverable_m(buffer, applied, trunk) == buffer

\* the buffered block the pipeline hands to the coin set: the one at the
\* trunk height after the last applied
deliverable(buffer, applied, trunk) ==
    {b \in buffer : Len(applied) < Len(trunk) /\ b = trunk[Len(applied) + 1]}

\* process_block: the coins the block confirms are added, the block is
\* journalled, and the processed marker moves to it
ProcessBlock(b) ==
    /\ ~fs.pending.some
    /\ b \in deliverable(inited.buffer, saved.applied, fs.trunk)
    /\ saved' = [applied |-> Append(saved.applied, b),
                 coins |-> saved.coins \cup ConfirmedIn(b),
                 processed |-> Some(b)]
    /\ inited' = [inited EXCEPT !.buffer = @ \ {b}]
    /\ last' = [op |-> "apply", block |-> b]
    /\ UNCHANGED <<fs, tick>>
    /\ PipelineFrame

\* an unwind that inverts nothing
unwind_to_m(coins, fork_point) == coins

\* unwind_to: the journal entries of every block newer than the fork point
\* are inverted
unwind_to(coins, fork_point) ==
    LET kept == Min(fork_point, Len(coins.applied))
        gone == {coins.applied[i] : i \in (kept + 1)..Len(coins.applied)}
    IN  [applied |-> SubSeq(coins.applied, 1, kept),
         coins |-> {c \in coins.coins : c.block \notin gone},
         processed |-> IF kept = 0 THEN NoneV ELSE Some(coins.applied[kept])]

\* the pipeline processes a reorganisation: buffered blocks off the new
\* trunk are dropped, the coin set is unwound to the fork point, and the
\* requests start again there
HandleReorg ==
    /\ fs.pending.some
    /\ saved' = unwind_to(saved, fs.pending.v)
    /\ inited' = [inflight |-> {}, buffer |-> inited.buffer \cap Range(fs.trunk)]
    /\ fs' = [fs EXCEPT !.pending = NoneV]
    /\ last' = [op |-> "reorg", unwound |-> Len(saved.applied) - Len(saved'.applied)]
    /\ UNCHANGED tick
    /\ PipelineFrame

NextPipeline ==
    \/ \E h \in BlockHashes : AcceptHeader(h)
    \/ \E b \in BlockHashes : Request(b)
    \/ \E b \in BlockHashes : Arrive(b)
    \/ \E b \in BlockHashes : ProcessBlock(b)
    \/ HandleReorg

SpecPipeline == InitPipeline /\ [][NextPipeline]_vars

\* C23: whatever the order in which requested blocks arrive, the coin set
\* receives block events in strictly ascending trunk height without gaps:
\* the block at trunk height h is applied only after the trunk block at
\* height h-1, and out-of-order arrivals are buffered until then.
C23_AppliedInTrunkOrder ==
    /\ [][Len(saved'.applied) > Len(saved.applied) =>
            LET h == Len(saved'.applied)
            IN  /\ h = Len(saved.applied) + 1
                /\ SubSeq(saved'.applied, 1, h - 1) = saved.applied
                /\ h <= Len(fs.trunk)
                /\ saved'.applied[h] = fs.trunk[h]
                /\ \A i \in 1..(h - 1) : saved.applied[i] = fs.trunk[i]
                /\ saved'.applied[h] \in inited.buffer]_vars
    /\ [](~fs.pending.some =>
            \A b \in inited.buffer : Len(ChainTo(b)) > Len(saved.applied))

\* three blocks applied, one of which had arrived ahead of an earlier one
C23_Witness ==
    /\ tick = 1
    /\ last.op = "apply"
    /\ Len(saved.applied) = 3

====
